---- MODULE Spec2Model ----
(***************************************************************************)
(* Model of the incremental processing pipeline of geovelo.Overlay         *)
(* (src/js/data.js), of geovelo.BeaconVertexTexture                        *)
(* (src/js/beacon-vertex-texture.js) and of geovelo.WebMercator            *)
(* (src/js/web-mercator.js).                                               *)
(*                                                                         *)
(* JavaScript runs every handler (a call of setData, a timer callback) to  *)
(* completion.  pc is the position inside the handler that is running:     *)
(* "idle" when control is with the host event loop, otherwise the loop the *)
(* handler is about to test.  Every action below is one pass through one   *)
(* loop of the source (or the code between two loops), and no other        *)
(* handler starts while pc # "idle".                                       *)
(*                                                                         *)
(* Numbers.  Projected coordinates are fixed-point: one unit is 1/2000 of  *)
(* a projected pixel, so that the mean of two table values is exact.       *)
(* Infinity, -Infinity and NaN (also standing for undefined, which is NaN  *)
(* in arithmetic and falsy in tests) are integers outside every range the  *)
(* model uses.                                                             *)
(***************************************************************************)
EXTENDS Integers, Sequences, FiniteSets, TLC

\* ------------------------------------------------------------------ bounds

\* Longest station list handed to setData.
MaxBeacons == 3

\* Number of setData calls in one behaviour.
MaxSetData == 2

\* Longest station list handed to a setData call that follows an earlier one.
MaxSuperseding == 2

\* Most days a texture constructed directly spans.
MaxDays == 3

\* Most setter calls made directly on one texture.
MaxWrites == 2

\* The longest array handed to interpolateGaps directly.
MaxLen == 5

\* The largest number of stations in a prepared data file.
MaxFilled == 2

\* ------------------------------------------------------- program constants

SECONDS_PER_DAY == 86400

maxProcessingTime == 100

Infinity == 1000000000

NegInfinity == -1000000000

NaN == -999999999

\* One projected pixel in fixed-point units.
Scale == 2 * 1000

\* ----------------------------------------------------------- JS primitives

Min(a, b) == IF a <= b THEN a ELSE b

Max(a, b) == IF a >= b THEN a ELSE b

\* The truthiness test as it would be if 0 were a value like any other.
TruthyNotNaN(v) == v # NaN

\* The truthiness test of `lon && lat`, `!prevLon`: 0, NaN, undefined are falsy.
Truthy(v) == v # 0 /\ v # NaN

\* arry[i] with a 0-based index; outside the array the result is undefined.
Elem(arry, i) == IF i >= 0 /\ i < Len(arry) THEN arry[i + 1] ELSE NaN

\* a - b in floating point: NaN is absorbing.
Sub(a, b) == IF a = NaN \/ b = NaN THEN NaN ELSE a - b

\* a <= b and a < b in floating point: every comparison with NaN is false.
Leq(a, b) == a # NaN /\ b # NaN /\ a <= b

Lt(a, b) == a # NaN /\ b # NaN /\ a < b

\* ------------------------------------------------------------- WebMercator

\* getX as it would be without the shift by pi.
GetXNoShift(lon) ==
  IF lon = NaN THEN NaN ELSE (lon * 128 * Scale) \div 180

\* getX: ZOOM_FACTOR * (lon * DEG_TO_RAD + PI) = 128 + lon * 128 / 180.
GetX(lon) ==
  IF lon = NaN THEN NaN ELSE 128 * Scale + (lon * 128 * Scale) \div 180

\* getY: ZOOM_FACTOR * (PI - ln(tan(PI/4 - lat * DEG_TO_RAD / 2))), tabulated
\* to 1/1000 pixel for the latitudes of the station catalogue.
GetY(lat) ==
  CASE lat = NaN -> NaN
    [] lat = 0 -> 128 * Scale
    [] lat = 30 -> 300762
    [] lat = 45 -> 327820
    [] lat = 60 -> 363316
    [] lat = -30 -> 211238
    [] OTHER -> NaN

\* ---------------------------------------------------------------- stations

Day(n) == n * SECONDS_PER_DAY

\* The stations a data file may hold: one fully sampled, one whose first day
\* is missing, one whose last day is missing, one with no samples at all.
\* (fillBeaconGaps has run before setData: no gap lies between valid values.)
Catalogue ==
  { [name |-> "a", start |-> Day(10), lon |-> <<45, 90>>, lat |-> <<30, 45>>],
    [name |-> "b", start |-> Day(11), lon |-> <<0, 90>>, lat |-> <<0, 60>>],
    [name |-> "c", start |-> Day(10), lon |-> <<135, 0>>, lat |-> <<-30, 0>>],
    [name |-> "z", start |-> Day(11), lon |-> <<>>, lat |-> <<>>] }

RECURSIVE SeqsUpTo(_)
\* The lists of at most n catalogue stations with distinct names.
SeqsUpTo(n) ==
  IF n = 0 THEN {<<>>}
  ELSE LET shorter == SeqsUpTo(n - 1)
       IN shorter \cup
          { Append(s, b) : s \in {t \in shorter : Len(t) = n - 1},
                           b \in Catalogue }

Distinct(s) == \A i, j \in 1..Len(s) : i # j => s[i].name # s[j].name

Datasets == {s \in SeqsUpTo(MaxBeacons) : Distinct(s)}

\* ------------------------------------------------------- geovelo.data

\* The first scan as it would be if it were left out.
ScanLeadingNot(arry, i) == i

RECURSIVE ScanLeading(_, _)
\* while (i < len - 1 && !arry[i]) i++
ScanLeading(arry, i) ==
  IF i < Len(arry) - 1 /\ ~Truthy(Elem(arry, i))
  THEN ScanLeading(arry, i + 1)
  ELSE i

RECURSIVE ScanValid(_, _)
\* while (i < len && arry[i]) i++
ScanValid(arry, i) ==
  IF i < Len(arry) /\ Truthy(Elem(arry, i))
  THEN ScanValid(arry, i + 1)
  ELSE i

RECURSIVE ScanGap(_, _)
\* while (i < len && !arry[i]) i++
ScanGap(arry, i) ==
  IF i < Len(arry) /\ ~Truthy(Elem(arry, i))
  THEN ScanGap(arry, i + 1)
  ELSE i

\* A Number is a binary floating-point number: every result of an operation
\* is rounded to a significand of limited length. The model keeps the
\* rounding rule of the 53-bit significand and shortens it to Precision bits;
\* the numbers are counted in units of the smallest one.
Precision == 8

RECURSIVE Spacing(_, _, _)
\* The distance between neighbouring Numbers around n / d (d > 0): the
\* smallest power of two from s on that leaves Precision bits before it.
Spacing(n, d, s) ==
  IF (IF n < 0 THEN -n ELSE n) < (2 ^ Precision) * s * d
  THEN s
  ELSE Spacing(n, d, 2 * s)

\* n / d rounded to the nearest Number, a tie to the even significand.
Rounded(n, d) ==
  LET s == Spacing(n, d, 1)
      q == n \div (d * s)
      r == n - q * d * s
  IN IF 2 * r < d * s THEN q * s
     ELSE IF 2 * r > d * s THEN (q + 1) * s
     ELSE IF q % 2 = 0 THEN q * s
     ELSE (q + 1) * s

\* y1 + m * (j - x1) with m = (y2 - y1) / (x2 - x1), each operation rounded.
Interpolated(y1, y2, x1, x2, j) ==
  LET m == Rounded(Rounded(y2 - y1, 1), x2 - x1)
  IN Rounded(y1 + Rounded(m * (j - x1), 1), 1)

\* The fill that leaves the gap as it found it.
FillGapNot(arry, x1, x2) == arry

\* for (j = x1 + 1; j < x2; j++) arry[j] = y1 + m * (j - x1)
FillGap(arry, x1, x2) ==
  [k \in 1..Len(arry) |->
     IF k - 1 > x1 /\ k - 1 < x2
     THEN Interpolated(Elem(arry, x1), Elem(arry, x2), x1, x2, k - 1)
     ELSE arry[k]]

RECURSIVE interpolateGapsLoop(_, _, _)
\* The loop `while (i < len - 2)` entered with index i, allowed `passes` more
\* passes: the array as the function leaves it and whether it has returned.
interpolateGapsLoop(arry, i, passes) ==
  LET len == Len(arry)
      gap == ScanValid(arry, i)
      x1 == gap - 1
      x2 == ScanGap(arry, gap + 1)
  IN IF ~(i < len - 2) THEN [arry |-> arry, returned |-> TRUE]
     ELSE IF passes = 0 THEN [arry |-> arry, returned |-> FALSE]
     ELSE IF gap >= len - 1 THEN [arry |-> arry, returned |-> TRUE]
     ELSE IF x2 > len - 1 \/ ~Truthy(Elem(arry, x2))
          THEN [arry |-> arry, returned |-> TRUE]
     ELSE interpolateGapsLoop(FillGap(arry, x1, x2), x2, passes - 1)

\* interpolateGaps(arry): no pass of the outer loop leaves i where it was, so
\* a call that has not returned after len passes never returns.
interpolateGaps(arry) ==
  interpolateGapsLoop(arry, ScanLeading(arry, 0), Len(arry))

\* fillBeaconGaps(beacons): every station's lat and lon interpolated.
fillBeaconGaps(beacons) ==
  [k \in 1..Len(beacons) |->
     [beacons[k] EXCEPT !.lat = interpolateGaps(@).arry,
                        !.lon = interpolateGaps(@).arry]]

\* ------------------------------------------------------ BeaconVertexTexture

\* state.texture before setupBuffers has run: undefined.
NoTexture ==
  [alloc |-> FALSE, beaconCount |-> 0, startTimestamp |-> 0,
   endTimestamp |-> 0, timestampCount |-> 0, width |-> 0, height |-> 0,
   data |-> <<>>, needsUpdate |-> FALSE]

\* The width as it would be if the division were rounded down.
WidthFloor(timestampCount) == (timestampCount + 1) \div 2

\* Math.ceil((timestampCount + 1) / 2).
Width(timestampCount) == -((-(timestampCount + 1)) \div 2)

TimestampCount(startTimestamp, endTimestamp) ==
  (endTimestamp - startTimestamp) \div SECONDS_PER_DAY + 1

\* new Float32Array(n) throws a RangeError unless n is a finite length >= 0;
\* the empty station list leaves startTimestamp = Infinity and
\* endTimestamp = -Infinity, so that timestampCount and width are -Infinity.
ConstructThrows(beaconCount, startTimestamp, endTimestamp) ==
  \/ startTimestamp = Infinity
  \/ endTimestamp = NegInfinity
  \/ Width(TimestampCount(startTimestamp, endTimestamp)) < 0

\* The constructor as it would be if it left out the row of the medians.
BeaconVertexTextureNoMedianRow(beaconCount, startTimestamp, endTimestamp) ==
  LET timestampCount == TimestampCount(startTimestamp, endTimestamp)
      width == Width(timestampCount)
      height == beaconCount
  IN [alloc |-> TRUE, beaconCount |-> beaconCount,
      startTimestamp |-> startTimestamp, endTimestamp |-> endTimestamp,
      timestampCount |-> timestampCount, width |-> width, height |-> height,
      data |-> [k \in 1..(width * height * 4) |-> 0],
      needsUpdate |-> FALSE]

\* The constructor; data[k] of the source is data[k + 1] here.
BeaconVertexTexture(beaconCount, startTimestamp, endTimestamp) ==
  LET timestampCount == TimestampCount(startTimestamp, endTimestamp)
      width == Width(timestampCount)
      height == beaconCount + 1
  IN [alloc |-> TRUE, beaconCount |-> beaconCount,
      startTimestamp |-> startTimestamp, endTimestamp |-> endTimestamp,
      timestampCount |-> timestampCount, width |-> width, height |-> height,
      data |-> [k \in 1..(width * height * 4) |-> 0],
      needsUpdate |-> FALSE]

\* computeOffset as it would be if it left out the slot of the base.
computeOffsetNoBase(tex, beaconIndex, timeIndex) ==
  (beaconIndex + 1) * tex.width * 4 + timeIndex * 2

\* computeOffset(beaconIndex, timeIndex), lines 134-137.
computeOffset(tex, beaconIndex, timeIndex) ==
  (beaconIndex + 1) * tex.width * 4 + (timeIndex + 1) * 2

\* getTimeIndex is a floating-point division: WholeDay tells whether the
\* quotient is an integer, getTimeIndex is the quotient when it is.
WholeDay(tex, timestamp) ==
  (timestamp - tex.startTimestamp) % SECONDS_PER_DAY = 0

getTimeIndex(tex, timestamp) ==
  (timestamp - tex.startTimestamp) \div SECONDS_PER_DAY

\* this.data[offset] = lon; this.data[offset + 1] = lat. A typed array
\* ignores a store to an index that is not one of its elements.
Store(data, offset, lon, lat) ==
  [k \in DOMAIN data |->
     IF k = offset + 1 THEN lon ELSE IF k = offset + 2 THEN lat ELSE data[k]]

\* The three setters return the texture after the call and whether the call
\* threw: a TypeError when state.texture is undefined, the Error of the
\* bounds test otherwise.
setBeaconLonLat(tex, beaconIndex, timestamp, lon, lat) ==
  IF ~tex.alloc THEN [tex |-> tex, threw |-> TRUE]
  ELSE IF beaconIndex >= tex.beaconCount THEN [tex |-> tex, threw |-> TRUE]
  ELSE IF timestamp < tex.startTimestamp \/ timestamp > tex.endTimestamp
    THEN [tex |-> tex, threw |-> TRUE]
  ELSE [tex |-> [tex EXCEPT
                   !.data = IF WholeDay(tex, timestamp)
                            THEN Store(@, computeOffset(tex, beaconIndex,
                                         getTimeIndex(tex, timestamp)), lon, lat)
                            ELSE @,
                   !.needsUpdate = TRUE],
        threw |-> FALSE]

setMedianLonLat(tex, timestamp, lon, lat) ==
  IF ~tex.alloc THEN [tex |-> tex, threw |-> TRUE]
  ELSE IF timestamp < tex.startTimestamp \/ timestamp > tex.endTimestamp
    THEN [tex |-> tex, threw |-> TRUE]
  ELSE [tex |-> [tex EXCEPT
                   !.data = IF WholeDay(tex, timestamp)
                            THEN Store(@, computeOffset(tex, -1,
                                         getTimeIndex(tex, timestamp)), lon, lat)
                            ELSE @,
                   !.needsUpdate = TRUE],
        threw |-> FALSE]

\* setBaseLonLat as it would be if it stored nothing.
setBaseLonLatNothing(tex, beaconIndex, lon, lat) ==
  [tex |-> tex, threw |-> ~tex.alloc \/ beaconIndex >= tex.beaconCount]

setBaseLonLat(tex, beaconIndex, lon, lat) ==
  IF ~tex.alloc THEN [tex |-> tex, threw |-> TRUE]
  ELSE IF beaconIndex >= tex.beaconCount THEN [tex |-> tex, threw |-> TRUE]
  ELSE [tex |-> [tex EXCEPT
                   !.data = Store(@, computeOffset(tex, beaconIndex, -1), lon, lat),
                   !.needsUpdate = TRUE],
        threw |-> FALSE]

\* ------------------------------------------------------------------ Overlay

\* The processState object that setData creates. Fields the source leaves
\* undefined until a later phase sets them are NaN (numbers), <<>> (arrays)
\* or NoTexture; beaconState is <<>> for null and <<record>> otherwise, and
\* so is every element of processedBeacons (<<>> for a hole of the array).
\* positionIndex is undefined until processData(true); it is read only after
\* a call on state.texture has succeeded, which needs setupBuffers to have
\* run, and setupBuffers is followed at once by processData(true).
NewProcessState(rawBeacons) ==
  [totalVertexCount |-> 0,
   rawBeacons |-> rawBeacons,
   processedBeacons |-> [k \in 1..Len(rawBeacons) |-> <<>>],
   beaconIndex |-> NaN,
   startTimestamp |-> NaN,
   endTimestamp |-> NaN,
   positions |-> <<>>,
   positionIndex |-> NaN,
   texture |-> NoTexture,
   beaconState |-> <<>>,
   currentTimestamp |-> NaN,
   medianLons |-> <<>>,
   medianLats |-> <<>>]

\* analyzeData, lines 330-334: the init block.
analyzeDataInit(state, init) ==
  IF init
  THEN [state EXCEPT !.beaconIndex = 0, !.startTimestamp = Infinity,
                     !.endTimestamp = NegInfinity]
  ELSE state

\* analyzeData as it would be if it counted no separator vertices.
analyzeDataBodyNoSeparators(state) ==
  LET beacon == state.rawBeacons[state.beaconIndex + 1]
  IN [state EXCEPT
        !.totalVertexCount = @ + Len(beacon.lon),
        !.startTimestamp = Min(@, beacon.start),
        !.endTimestamp = Max(@, beacon.start + Len(beacon.lon) * 60 * 60 * 24),
        !.beaconIndex = @ + 1]

\* analyzeData as it would be if it kept the start of the station visited
\* last instead of the earliest start.
analyzeDataBodyLastStart(state) ==
  LET beacon == state.rawBeacons[state.beaconIndex + 1]
  IN [state EXCEPT
        !.totalVertexCount = @ + Len(beacon.lon) + 2,
        !.startTimestamp = beacon.start,
        !.endTimestamp = Max(@, beacon.start + Len(beacon.lon) * 60 * 60 * 24),
        !.beaconIndex = @ + 1]

\* analyzeData, lines 340-353: one pass through the while loop.
analyzeDataBody(state) ==
  LET beacon == state.rawBeacons[state.beaconIndex + 1]
  IN [state EXCEPT
        !.totalVertexCount = @ + Len(beacon.lon) + 2,
        !.startTimestamp = Min(@, beacon.start),
        !.endTimestamp = Max(@, beacon.start + Len(beacon.lon) * 60 * 60 * 24),
        !.beaconIndex = @ + 1]

\* One record of the positions array: three consecutive floats.
Vertex(x, y, z) == <<x, y, z>>

\* state.positions[positionIndex * 3 + k] = ...: ignored past the end.
SetVertex(positions, positionIndex, v) ==
  IF positionIndex + 1 \in DOMAIN positions
  THEN [positions EXCEPT ![positionIndex + 1] = v]
  ELSE positions

\* setupBuffers, lines 391-407. positions is allocated before the texture
\* constructor can throw; the line is added to the scene after it.
setupBuffersBody(state) ==
  LET positions == [k \in 1..state.totalVertexCount |-> Vertex(0, 0, 0)]
      threw == ConstructThrows(Len(state.rawBeacons), state.startTimestamp,
                               state.endTimestamp)
  IN [state |-> [state EXCEPT
                   !.positions = positions,
                   !.texture = IF threw THEN @
                               ELSE BeaconVertexTexture(Len(state.rawBeacons),
                                      state.startTimestamp, state.endTimestamp)],
      threw |-> threw]

\* processData as it would be if it reset its cursors on every call.
processDataInitAlways(state, init) ==
  [state EXCEPT !.beaconIndex = 0, !.positionIndex = 0]

\* processData, lines 422-425: the init block.
processDataInit(state, init) ==
  IF init
  THEN [state EXCEPT !.beaconIndex = 0, !.positionIndex = 0]
  ELSE state

\* processData, lines 440-452: the beaconState of a station first visited.
NewBeaconState(beacon) ==
  [name |-> beacon.name,
   baseX |-> GetX(Elem(beacon.lon, 0)),
   baseY |-> GetY(Elem(beacon.lat, 0)),
   lonLatIndex |-> 0]

\* processData, lines 472-492: the position records of one valid sample.
AddVertices(state, beacon, lonLatIndex, timestamp) ==
  LET first == lonLatIndex = 0
      last == lonLatIndex = Len(beacon.lon) - 1
      i0 == state.positionIndex
      i1 == IF first THEN i0 + 1 ELSE i0
      p0 == IF first
            THEN SetVertex(state.positions, i0,
                           Vertex(state.beaconIndex, beacon.start, NegInfinity))
            ELSE state.positions
      p1 == SetVertex(p0, i1, Vertex(state.beaconIndex, beacon.start, timestamp))
      p2 == IF last
            THEN SetVertex(p1, i1 + 1,
                           Vertex(state.beaconIndex, beacon.start, Infinity))
            ELSE p1
  IN [state EXCEPT !.positions = p2,
                   !.positionIndex = IF last THEN i1 + 2 ELSE i1 + 1]

\* processData, lines 433-520, from one test of a loop condition to the next:
\* the station's beaconState is created and its base written if it has none
\* (lines 438-456); then either one pass through the inner loop (lines
\* 460-498, which ends at the clock test of line 500: checked), or, when the
\* inner loop is over, the end of the station (lines 511-516: not checked).
\* A throwing texture call leaves what was assigned before it.
processDataBody(state) ==
  LET beacon == state.rawBeacons[state.beaconIndex + 1]
      fresh == state.beaconState = <<>>
      beaconState == IF fresh THEN NewBeaconState(beacon) ELSE state.beaconState[1]
      base == IF fresh
              THEN setBaseLonLat(state.texture, state.beaconIndex,
                                 beaconState.baseX, beaconState.baseY)
              ELSE [tex |-> state.texture, threw |-> FALSE]
      s1 == [state EXCEPT !.beaconState = <<beaconState>>, !.texture = base.tex]
      index == beaconState.lonLatIndex
      lon == Elem(beacon.lon, index)
      lat == Elem(beacon.lat, index)
      timestamp == beacon.start + index * 60 * 60 * 24
      put == setBeaconLonLat(s1.texture, state.beaconIndex, timestamp,
                             Sub(GetX(lon), beaconState.baseX),
                             Sub(GetY(lat), beaconState.baseY))
      advanced == <<[beaconState EXCEPT !.lonLatIndex = @ + 1]>>
  IN IF base.threw THEN [state |-> s1, threw |-> TRUE, checked |-> FALSE]
     ELSE IF index < Len(beacon.lon)
     THEN IF Truthy(lon) /\ Truthy(lat)
          THEN IF put.threw
               THEN [state |-> s1, threw |-> TRUE, checked |-> FALSE]
               ELSE [state |-> [AddVertices([s1 EXCEPT !.texture = put.tex],
                                            beacon, index, timestamp)
                                  EXCEPT !.beaconState = advanced],
                     threw |-> FALSE, checked |-> TRUE]
          ELSE [state |-> [s1 EXCEPT !.beaconState = advanced],
                threw |-> FALSE, checked |-> TRUE]
     ELSE [state |-> [s1 EXCEPT
                        !.processedBeacons =
                           [k \in DOMAIN @ |->
                              IF k = state.beaconIndex + 1
                              THEN <<beaconState>> ELSE @[k]],
                        !.beaconState = <<>>,
                        !.beaconIndex = @ + 1],
           threw |-> FALSE, checked |-> FALSE]

\* computeMedians as it would be if it started over on every call.
computeMediansInitAlways(state, init) ==
  [state EXCEPT !.currentTimestamp = state.startTimestamp,
                !.medianLons = <<>>, !.medianLats = <<>>]

\* computeMedians, lines 542-546: the init block.
computeMediansInit(state, init) ==
  IF init
  THEN [state EXCEPT !.currentTimestamp = state.startTimestamp,
                     !.medianLons = <<>>, !.medianLats = <<>>]
  ELSE state

\* Math.round(n / d) for n >= 0, d > 0.
Round(n, d) == (2 * n + d) \div (2 * d)

\* The backward scan as it would be if it looked one day back only.
PrevValidOneDay(beacon, prevIndex, prevLon, prevLat) ==
  <<Elem(beacon.lon, prevIndex), Elem(beacon.lat, prevIndex)>>

RECURSIVE PrevValid(_, _, _, _)
\* computeMedians, lines 585-592: slide backwards from prevIndex over missing
\* data; the pair of values the loop ends with.
PrevValid(beacon, prevIndex, prevLon, prevLat) ==
  IF prevIndex >= 0 /\ (~Truthy(prevLon) \/ ~Truthy(prevLat))
  THEN PrevValid(beacon, prevIndex - 1,
                 Elem(beacon.lon, prevIndex), Elem(beacon.lat, prevIndex))
  ELSE <<prevLon, prevLat>>

\* computeMedians, lines 560-602: the deltas station j adds on the current
\* day, <<>> when it adds none, <<deltaLon, deltaLat>> otherwise.
BeaconDelta(state, j) ==
  LET beacon == state.rawBeacons[j + 1]
      endTimestamp == beacon.start + SECONDS_PER_DAY * Len(beacon.lon)
      index == Round(state.currentTimestamp - beacon.start, SECONDS_PER_DAY)
      lon == Elem(beacon.lon, index)
      lat == Elem(beacon.lat, index)
      prev == PrevValid(beacon, index - 1, 0, 0)
  IN IF state.currentTimestamp < beacon.start THEN <<>>
     ELSE IF state.currentTimestamp > endTimestamp THEN <<>>
     ELSE IF ~(Truthy(lon) /\ Truthy(lat)) THEN <<>>
     ELSE IF ~Truthy(prev[1]) \/ ~Truthy(prev[2]) THEN <<>>
     ELSE <<Sub(GetX(lon), GetX(prev[1])), Sub(GetY(lat), GetY(prev[2]))>>

RECURSIVE Deltas(_, _, _)
\* The deltaLons (axis 1) or deltaLats (axis 2) list after the for loop of
\* line 558 has visited the stations j, j + 1, ...
Deltas(state, j, axis) ==
  IF j >= Len(state.rawBeacons) THEN <<>>
  ELSE LET d == BeaconDelta(state, j)
       IN IF d = <<>> THEN Deltas(state, j + 1, axis)
          ELSE <<d[axis]>> \o Deltas(state, j + 1, axis)

\* d3.median: NaN when the list holds no number (d3 returns undefined), else
\* the 0.5 quantile of the sorted numbers: the middle one, or the mean of the
\* two middle ones.
d3median(array) ==
  LET numbers == SelectSeq(array, LAMBDA v : v # NaN)
      sorted == SortSeq(numbers, LAMBDA a, b : a < b)
      n == Len(sorted)
  IN IF n = 0 THEN NaN
     ELSE IF n % 2 = 1 THEN sorted[(n + 1) \div 2]
     ELSE sorted[n \div 2] + (sorted[n \div 2 + 1] - sorted[n \div 2]) \div 2

\* v as it is, without the fallback to 0.
OrItself(v) == v

\* v || 0.
OrZero(v) == IF Truthy(v) THEN v ELSE 0

\* medians[medians.length - 1]: undefined on the empty array.
LastOf(medians) == Elem(medians, Len(medians) - 1)

\* computeMedians, lines 555-618: one pass through the while loop. The
\* cumulative medians are pushed before setMedianLonLat can throw.
computeMediansBody(state) ==
  LET cumulativeMedianLon ==
        OrZero(d3median(Deltas(state, 0, 1))) + OrZero(LastOf(state.medianLons))
      cumulativeMedianLat ==
        OrZero(d3median(Deltas(state, 0, 2))) + OrZero(LastOf(state.medianLats))
      s1 == [state EXCEPT !.medianLons = Append(@, cumulativeMedianLon),
                          !.medianLats = Append(@, cumulativeMedianLat)]
      put == setMedianLonLat(state.texture, state.currentTimestamp,
                             cumulativeMedianLon, cumulativeMedianLat)
  IN IF put.threw THEN [state |-> s1, threw |-> TRUE]
     ELSE [state |-> [s1 EXCEPT !.texture = put.tex,
                                !.currentTimestamp = @ + SECONDS_PER_DAY],
           threw |-> FALSE]

\* ------------------------------------------------------------ state machine

VARIABLES
  processState,  \* this.processState
  scene,         \* number of lines added to this.scene
  timers,        \* the pending setTimeout callbacks, in firing order
  pc,            \* position of the running handler, "idle" when none runs
  elapsed,       \* Date.now() - start of the running phase function
  stretch,       \* time the running handler has worked since it was entered
  over,          \* loop passes begun in this phase function call with
                 \* elapsed >= maxProcessingTime
  calls,         \* number of setData calls so far
  run,           \* the setData call the running handler descends from
  preempted,     \* the callback that was pending when setData was last called
  lastEvent,     \* the last event dispatched since the last setData
  emitted,       \* whether the last step dispatched an event
  threw,         \* whether the last step ended its handler with an exception
  readyCount,    \* 'ready' events since the last setData
  extentCount,   \* 'extent-changed' events since the last setData
  setupCount,    \* completed buffer allocations since the last setData
  yields,        \* the callbacks that have been rescheduled since the last
                 \* setData
  phase,         \* the phase that ran last since the last setData: its
                 \* position in PhaseOrder
  inOrder,       \* whether since the last setData every step belonged to the
                 \* phase of the step before it or to the next phase
  beaconVertexTexture,  \* a BeaconVertexTexture constructed and written
                        \* directly, as the renderer's uniform holds it
  call,          \* the last call made directly on beaconVertexTexture
  arry,          \* the array handed to the last interpolateGaps call
  filled,        \* the array as that call left it
  returned,      \* whether that call returned
  applied,       \* number of interpolateGaps calls made on the array so far
  markers,       \* Map.markers: the names of the stations that have a marker
  dataReady,     \* the 'data-ready' events dispatched so far: their number
                 \* and the detail of the last one
  projection,    \* the last two longitudes handed to WebMercator.getX and
                 \* what it returned for them
  timeRange      \* the TimeRange selector: its extent and range, and how the
                 \* last operation on it ended

vars ==
  <<processState, scene, timers, pc, elapsed, stretch, over, calls, run,
    preempted, lastEvent, emitted, threw, readyCount, extentCount, setupCount,
    yields, phase, inOrder, beaconVertexTexture, call, arry, filled, returned,
    applied, markers, dataReady, projection, timeRange>>

\* The variables of the texture used directly.
texVars == <<beaconVertexTexture, call>>

\* The variables of interpolateGaps called directly.
gapVars == <<arry, filled, returned, applied>>

\* The variables of the application around the overlay.
appVars == <<markers, dataReady>>

\* The variables of the projection and of the time range selector used
\* directly.
uiVars == <<projection, timeRange>>

\* The variables of the overlay's pipeline.
overlayVars ==
  <<processState, scene, timers, pc, elapsed, stretch, over, calls, run,
    preempted, lastEvent, emitted, threw, readyCount, extentCount, setupCount,
    yields, phase, inOrder>>

\* new geovelo.TimeRange(): extent and range are null (NaN here); op, args
\* and threw tell which operation came last, with what arguments, and
\* whether it threw.
NewTimeRange ==
  [extentStart |-> NaN, extentEnd |-> NaN, rangeStart |-> NaN,
   rangeEnd |-> NaN, op |-> "new", args |-> <<>>, threw |-> FALSE]

\* No call has been made on beaconVertexTexture.
NoCall ==
  [op |-> "none", beaconIndex |-> 0, timestamp |-> 0, lon |-> 0, lat |-> 0,
   threw |-> FALSE, count |-> 0]

\* What one pass through a loop may cost on the clock, in ms: nothing
\* measurable, more than half the budget, the whole budget.
IterCost == {0, 60, 100}

\* The callbacks handed to setTimeout: each phase function reschedules itself.
analyzeDataCallback == "analyzeData"

\* processData as it would be if it rescheduled analyzeData.
processDataCallbackWrong == "analyzeData"

processDataCallback == "processData"

computeMediansCallback == "computeMedians"

NoEvent == [type |-> "none", status |-> "", progress |-> <<0, 1>>,
            extent |-> <<0, 0>>]

\* emitStatusUpdate(status, num / den).
StatusUpdate(status, num, den) ==
  [type |-> "status-update", status |-> status, progress |-> <<num, den>>,
   extent |-> <<0, 0>>]

ExtentChanged(extentStart, extentEnd) ==
  [type |-> "extent-changed", status |-> "", progress |-> <<0, 1>>,
   extent |-> <<extentStart, extentEnd>>]

PhaseOrder ==
  <<"analyzeData", "setupBuffers", "processData", "computeMedians", "ready">>

PhaseIndex(name) == CHOOSE k \in 1..Len(PhaseOrder) : PhaseOrder[k] = name

\* The bookkeeping of a step that belongs to the named phase.
Logged(name) ==
  /\ phase' = PhaseIndex(name)
  /\ inOrder' = (inOrder /\ PhaseIndex(name) \in {phase, phase + 1})

\* analyzeData as it would be if a yield announced the extent found so far.
analyzeDataProgressAsExtent(state) ==
  ExtentChanged(state.startTimestamp, state.endTimestamp)

\* analyzeData, lines 357-358: the event of a yield.
analyzeDataProgress(state) ==
  StatusUpdate("analyzing data...", state.beaconIndex, Len(state.rawBeacons))

\* Date.now() - start >= this.maxProcessingTime
BudgetSpent(t) == t >= maxProcessingTime

\* setTimeout(callback.bind(this), this.resumeProcessingDelay): every delay
\* is the same, so the callbacks fire in the order they were scheduled.
SetTimeout(callback) ==
  /\ timers' = Append(timers, [callback |-> callback, run |-> run])
  /\ yields' = yields \cup {callback}

\* The bookkeeping of a loop pass that costs c.
Pass(c) ==
  /\ elapsed' = elapsed + c
  /\ stretch' = stretch + c
  /\ over' = IF BudgetSpent(elapsed) THEN over + 1 ELSE over

Init ==
  /\ processState = NewProcessState(<<>>)
  /\ scene = 0
  /\ timers = <<>>
  /\ pc = "idle"
  /\ elapsed = 0
  /\ stretch = 0
  /\ over = 0
  /\ calls = 0
  /\ run = 0
  /\ preempted = "none"
  /\ lastEvent = NoEvent
  /\ emitted = FALSE
  /\ threw = FALSE
  /\ readyCount = 0
  /\ extentCount = 0
  /\ setupCount = 0
  /\ yields = {}
  /\ phase = 0
  /\ inOrder = TRUE
  /\ beaconVertexTexture = NoTexture
  /\ call = NoCall
  /\ arry = <<>>
  /\ filled = <<>>
  /\ returned = FALSE
  /\ applied = 0
  /\ markers = <<>>
  /\ dataReady = [count |-> 0, detail |-> <<>>]
  /\ projection = [a |-> 0, b |-> 0, xa |-> GetX(0), xb |-> GetX(0),
                   called |-> FALSE]
  /\ timeRange = NewTimeRange

\* The station lists a setData call may be handed.
SetDataInputs ==
  IF calls = 0 THEN Datasets ELSE {d \in Datasets : Len(d) <= MaxSuperseding}

\* setData(rawBeacons) with rawBeacons one of inputs, up to the first loop
\* test of analyzeData(true).
SetDataFrom(inputs) ==
  /\ pc = "idle"
  /\ calls < MaxSetData
  /\ \E rawBeacons \in inputs :
       processState' = analyzeDataInit(NewProcessState(rawBeacons), TRUE)
  /\ pc' = "analyzeData"
  /\ elapsed' = 0
  /\ stretch' = 0
  /\ over' = 0
  /\ calls' = calls + 1
  /\ run' = calls + 1
  /\ preempted' = IF timers = <<>> THEN "none" ELSE timers[1].callback
  /\ emitted' = FALSE
  /\ threw' = FALSE
  /\ readyCount' = 0
  /\ extentCount' = 0
  /\ setupCount' = 0
  /\ yields' = {}
  /\ phase' = PhaseIndex("analyzeData")
  /\ inOrder' = TRUE
  /\ lastEvent' = NoEvent
  /\ UNCHANGED <<scene, timers>>
  /\ UNCHANGED <<texVars, gapVars, uiVars>>

\* setData(rawBeacons) with one of the station lists of the catalogue.
SetData == SetDataFrom(SetDataInputs) /\ UNCHANGED appVars

\* A pending callback fires: the phase function is entered with init
\* undefined and reads this.processState and the clock.
TimerFires ==
  /\ pc = "idle"
  /\ timers # <<>>
  /\ pc' = timers[1].callback
  /\ run' = timers[1].run
  /\ timers' = Tail(timers)
  /\ processState' =
       CASE timers[1].callback = "analyzeData" -> analyzeDataInit(processState, FALSE)
         [] timers[1].callback = "processData" -> processDataInit(processState, FALSE)
         [] OTHER -> computeMediansInit(processState, FALSE)
  /\ elapsed' = 0
  /\ stretch' = 0
  /\ over' = 0
  /\ emitted' = FALSE
  /\ threw' = FALSE
  /\ Logged(timers[1].callback)
  /\ UNCHANGED <<scene, calls, preempted, lastEvent, readyCount, extentCount,
                 setupCount, yields>>
  /\ UNCHANGED <<texVars, gapVars, uiVars, appVars>>

\* analyzeData, lines 339-362: one pass through the loop and the clock test.
AnalyzeStep ==
  /\ pc = "analyzeData"
  /\ Lt(processState.beaconIndex, Len(processState.rawBeacons))
  /\ \E c \in IterCost :
       /\ Pass(c)
       /\ processState' = analyzeDataBody(processState)
       /\ IF BudgetSpent(elapsed + c)
          THEN /\ lastEvent' = analyzeDataProgress(processState')
               /\ emitted' = TRUE
               /\ SetTimeout(analyzeDataCallback)
               /\ pc' = "idle"
          ELSE /\ UNCHANGED <<lastEvent, timers, yields, pc>>
               /\ emitted' = FALSE
  /\ threw' = FALSE
  /\ Logged("analyzeData")
  /\ UNCHANGED <<scene, calls, run, preempted, readyCount, extentCount,
                 setupCount>>
  /\ UNCHANGED <<texVars, gapVars, uiVars, appVars>>

\* analyzeData, lines 364-374: the loop is over; announce the extent and
\* call setupBuffers.
AnalyzeDone ==
  /\ pc = "analyzeData"
  /\ ~Lt(processState.beaconIndex, Len(processState.rawBeacons))
  /\ lastEvent' = ExtentChanged(processState.startTimestamp,
                                processState.endTimestamp)
  /\ emitted' = TRUE
  /\ extentCount' = extentCount + 1
  /\ pc' = "setupBuffers"
  /\ threw' = FALSE
  /\ Logged("analyzeData")
  /\ UNCHANGED <<processState, scene, timers, elapsed, stretch, over, calls,
                 run, preempted, readyCount, setupCount, yields>>
  /\ UNCHANGED <<texVars, gapVars, uiVars, appVars>>

\* setupBuffers, lines 381-411, up to the first loop test of
\* processData(true); the RangeError of the texture constructor ends the
\* handler.
SetupBuffers ==
  /\ pc = "setupBuffers"
  /\ LET made == setupBuffersBody(processState)
     IN IF made.threw
        THEN /\ processState' = made.state
             /\ threw' = TRUE
             /\ pc' = "idle"
             /\ UNCHANGED <<scene, setupCount, elapsed, over>>
        ELSE /\ processState' = processDataInit(made.state, TRUE)
             /\ threw' = FALSE
             /\ scene' = scene + 1
             /\ setupCount' = setupCount + 1
             /\ pc' = "processData"
             /\ elapsed' = 0
             /\ over' = 0
  /\ emitted' = FALSE
  /\ Logged("setupBuffers")
  /\ UNCHANGED <<timers, stretch, calls, run, preempted, lastEvent,
                 readyCount, extentCount, yields>>
  /\ UNCHANGED <<texVars, gapVars, uiVars, appVars>>

\* processData, lines 433-520: one pass (see processDataBody), with the
\* clock test of line 500 when the pass went through the inner loop. A
\* TypeError or bounds error of a texture call ends the handler.
ProcessStep ==
  /\ pc = "processData"
  /\ Lt(processState.beaconIndex, Len(processState.rawBeacons))
  /\ \E c \in IterCost :
       LET done == processDataBody(processState)
       IN /\ Pass(c)
          /\ processState' = done.state
          /\ threw' = done.threw
          /\ IF done.threw
             THEN /\ pc' = "idle"
                  /\ emitted' = FALSE
                  /\ UNCHANGED <<lastEvent, timers, yields>>
             ELSE IF done.checked /\ BudgetSpent(elapsed + c)
             THEN /\ lastEvent' = StatusUpdate("adding beacon lines...",
                                    done.state.beaconIndex,
                                    Len(processState.rawBeacons))
                  /\ emitted' = TRUE
                  /\ SetTimeout(processDataCallback)
                  /\ pc' = "idle"
             ELSE /\ UNCHANGED <<lastEvent, timers, yields, pc>>
                  /\ emitted' = FALSE
  /\ Logged("processData")
  /\ UNCHANGED <<scene, calls, run, preempted, readyCount, extentCount,
                 setupCount>>
  /\ UNCHANGED <<texVars, gapVars, uiVars, appVars>>

\* processData, lines 522-525: the loop is over; call computeMedians(true).
ProcessDone ==
  /\ pc = "processData"
  /\ ~Lt(processState.beaconIndex, Len(processState.rawBeacons))
  /\ processState' = computeMediansInit(processState, TRUE)
  /\ pc' = "computeMedians"
  /\ elapsed' = 0
  /\ over' = 0
  /\ emitted' = FALSE
  /\ threw' = FALSE
  /\ Logged("processData")
  /\ UNCHANGED <<scene, timers, stretch, calls, run, preempted, lastEvent,
                 readyCount, extentCount, setupCount, yields>>
  /\ UNCHANGED <<texVars, gapVars, uiVars, appVars>>

\* computeMedians, lines 549-630: one pass through the loop and the clock
\* test.
MediansStep ==
  /\ pc = "computeMedians"
  /\ Leq(processState.currentTimestamp, processState.endTimestamp)
  /\ \E c \in IterCost :
       LET done == computeMediansBody(processState)
       IN /\ Pass(c)
          /\ processState' = done.state
          /\ threw' = done.threw
          /\ IF done.threw
             THEN /\ pc' = "idle"
                  /\ emitted' = FALSE
                  /\ UNCHANGED <<lastEvent, timers, yields>>
             ELSE IF BudgetSpent(elapsed + c)
             THEN /\ lastEvent' = StatusUpdate("computing medians...",
                                    done.state.currentTimestamp
                                      - processState.startTimestamp,
                                    processState.endTimestamp
                                      - processState.startTimestamp)
                  /\ emitted' = TRUE
                  /\ SetTimeout(computeMediansCallback)
                  /\ pc' = "idle"
             ELSE /\ UNCHANGED <<lastEvent, timers, yields, pc>>
                  /\ emitted' = FALSE
  /\ Logged("computeMedians")
  /\ UNCHANGED <<scene, calls, run, preempted, readyCount, extentCount,
                 setupCount>>
  /\ UNCHANGED <<texVars, gapVars, uiVars, appVars>>

\* computeMedians, line 632: the loop is over; announce 'ready'.
MediansDone ==
  /\ pc = "computeMedians"
  /\ ~Leq(processState.currentTimestamp, processState.endTimestamp)
  /\ lastEvent' = StatusUpdate("ready", 1, 1)
  /\ emitted' = TRUE
  /\ readyCount' = readyCount + 1
  /\ pc' = "idle"
  /\ threw' = FALSE
  /\ Logged("ready")
  /\ UNCHANGED <<processState, scene, timers, elapsed, stretch, over, calls,
                 run, preempted, extentCount, setupCount, yields>>
  /\ UNCHANGED <<texVars, gapVars, uiVars, appVars>>

Next ==
  \/ SetData
  \/ TimerFires
  \/ AnalyzeStep
  \/ AnalyzeDone
  \/ SetupBuffers
  \/ ProcessStep
  \/ ProcessDone
  \/ MediansStep
  \/ MediansDone

Spec == Init /\ [][Next]_vars

\* A single setData call: no call follows the first one.
SetDataOnce == calls = 0 /\ SetData

NextSingle ==
  \/ SetDataOnce
  \/ TimerFires
  \/ AnalyzeStep
  \/ AnalyzeDone
  \/ SetupBuffers
  \/ ProcessStep
  \/ ProcessDone
  \/ MediansStep
  \/ MediansDone

SingleRun == Init /\ [][NextSingle]_vars

\* -------------------------------------------------------- LineShaderMaterial

\* The uniform dt as it would be if a pixel held one timestep.
DtOnePerPixel(tex) == <<1, tex.width>>

\* setBeaconVertexTexture: dt = 0.5 / texture.width and
\* db = 1.0 / texture.height, as fractions <<numerator, denominator>>.
Dt(tex) == <<1, 2 * tex.width>>

Db(tex) == <<1, tex.height>>

\* texture2D with NearestFilter: the texel that a coordinate num / den in
\* 0..1 falls into, of size texels.
Texel(num, den, size) == (num * size) \div den

\* mod(timeIndex, 2.0) > 0.5 ? pack.xy : pack.zw, as the index of the first
\* of the two channels; mod is x - y * floor(x / y).
lookupChannel(timeIndex) == IF timeIndex % 2 = 1 THEN 0 ELSE 2

\* lookupPosition of the vertex shader: the element of the buffer where the
\* pair it returns starts. The coordinates are dt * (timeIndex + 1.5) and
\* db * (beaconIndex + 1.5).
lookupOffset(tex, timeIndex, beaconIndex) ==
  LET column == Texel(Dt(tex)[1] * (2 * timeIndex + 3), Dt(tex)[2] * 2, tex.width)
      row == Texel(Db(tex)[1] * (2 * beaconIndex + 3), Db(tex)[2] * 2, tex.height)
  IN (row * tex.width + column) * 4 + lookupChannel(timeIndex)

lookupPosition(tex, timeIndex, beaconIndex) ==
  <<tex.data[lookupOffset(tex, timeIndex, beaconIndex) + 1],
    tex.data[lookupOffset(tex, timeIndex, beaconIndex) + 2]>>

\* --------------------------------------------- the texture used directly

\* The startTimestamp of the textures constructed directly.
TexStart == Day(10)

\* The station indexes handed to a setter: every row of the texture and two
\* indexes on either side.
TexBeaconIndexes(tex) == (-2)..(tex.beaconCount + 1)

\* The timestamps handed to a setter: every day of the texture and one day
\* on either side.
TexTimestamps(tex) ==
  { tex.startTimestamp + d * SECONDS_PER_DAY : d \in (-1)..tex.timestampCount }

\* The coordinate pairs handed to a setter.
TexValues == { <<7, 9>> }

\* new geovelo.BeaconVertexTexture(beaconCount, startTimestamp, endTimestamp)
\* with endTimestamp - startTimestamp a multiple of a day.
Construct ==
  /\ ~beaconVertexTexture.alloc
  /\ \E beaconCount \in 0..MaxBeacons, days \in 0..(MaxDays - 1) :
       LET endTimestamp == TexStart + days * SECONDS_PER_DAY
       IN /\ ~ConstructThrows(beaconCount, TexStart, endTimestamp)
          /\ beaconVertexTexture' =
               BeaconVertexTexture(beaconCount, TexStart, endTimestamp)
          /\ call' = [op |-> "construct", beaconIndex |-> beaconCount,
                      timestamp |-> endTimestamp, lon |-> 0, lat |-> 0,
                      threw |-> FALSE, count |-> 0]
  /\ UNCHANGED <<overlayVars, gapVars, uiVars, appVars>>

\* texture.setBeaconLonLat(beaconIndex, timestamp, lon, lat)
CallSetBeaconLonLat ==
  /\ beaconVertexTexture.alloc
  /\ call.count < MaxWrites
  /\ \E beaconIndex \in TexBeaconIndexes(beaconVertexTexture),
        timestamp \in TexTimestamps(beaconVertexTexture), v \in TexValues :
       LET done == setBeaconLonLat(beaconVertexTexture, beaconIndex, timestamp,
                                   v[1], v[2])
       IN /\ beaconVertexTexture' = done.tex
          /\ call' = [op |-> "setBeaconLonLat", beaconIndex |-> beaconIndex,
                      timestamp |-> timestamp, lon |-> v[1], lat |-> v[2],
                      threw |-> done.threw, count |-> call.count + 1]
  /\ UNCHANGED <<overlayVars, gapVars, uiVars, appVars>>

\* texture.setMedianLonLat(timestamp, lon, lat)
CallSetMedianLonLat ==
  /\ beaconVertexTexture.alloc
  /\ call.count < MaxWrites
  /\ \E timestamp \in TexTimestamps(beaconVertexTexture), v \in TexValues :
       LET done == setMedianLonLat(beaconVertexTexture, timestamp, v[1], v[2])
       IN /\ beaconVertexTexture' = done.tex
          /\ call' = [op |-> "setMedianLonLat", beaconIndex |-> -1,
                      timestamp |-> timestamp, lon |-> v[1], lat |-> v[2],
                      threw |-> done.threw, count |-> call.count + 1]
  /\ UNCHANGED <<overlayVars, gapVars, uiVars, appVars>>

\* texture.setBaseLonLat(beaconIndex, lon, lat)
CallSetBaseLonLat ==
  /\ beaconVertexTexture.alloc
  /\ call.count < MaxWrites
  /\ \E beaconIndex \in TexBeaconIndexes(beaconVertexTexture), v \in TexValues :
       LET done == setBaseLonLat(beaconVertexTexture, beaconIndex, v[1], v[2])
       IN /\ beaconVertexTexture' = done.tex
          /\ call' = [op |-> "setBaseLonLat", beaconIndex |-> beaconIndex,
                      timestamp |-> beaconVertexTexture.startTimestamp
                                      - SECONDS_PER_DAY,
                      lon |-> v[1], lat |-> v[2],
                      threw |-> done.threw, count |-> call.count + 1]
  /\ UNCHANGED <<overlayVars, gapVars, uiVars, appVars>>

NextTexture ==
  \/ Construct
  \/ CallSetBeaconLonLat
  \/ CallSetMedianLonLat
  \/ CallSetBaseLonLat

TextureSpec == Init /\ [][NextTexture]_vars

\* ------------------------------------------ interpolateGaps called directly

\* A value that every distance between two indexes of an array divides: the
\* line between GapUnit and -GapUnit is computed without rounding.
GapUnit == 3 * 4 * 5

\* A value whose significand has no bit to spare: a line that starts or ends
\* at it is computed with rounding.
GapWide == 2 * (2 ^ (Precision - 1) + 1)

\* What an element of the array may be: missing (0, or undefined, null and
\* the like) or a value of either sign.
GapValues == {0, NaN, GapUnit, -GapUnit, GapWide, -GapWide}

RECURSIVE ArraysUpTo(_)
\* The arrays of at most n elements.
ArraysUpTo(n) ==
  IF n = 0 THEN {<<>>}
  ELSE LET shorter == ArraysUpTo(n - 1)
       IN shorter \cup
          { Append(s, v) : s \in {u \in shorter : Len(u) = n - 1},
                           v \in GapValues }

\* geovelo.data.interpolateGaps(arry) on a fresh array.
CallInterpolateGaps ==
  /\ applied = 0
  /\ \E a \in ArraysUpTo(MaxLen) :
       /\ arry' = a
       /\ filled' = interpolateGaps(a).arry
       /\ returned' = interpolateGaps(a).returned
  /\ applied' = 1
  /\ UNCHANGED <<overlayVars, texVars, uiVars, appVars>>

\* geovelo.data.interpolateGaps(arry) on the array the first call returned.
CallInterpolateGapsAgain ==
  /\ applied = 1
  /\ returned
  /\ arry' = filled
  /\ filled' = interpolateGaps(filled).arry
  /\ returned' = interpolateGaps(filled).returned
  /\ applied' = 2
  /\ UNCHANGED <<overlayVars, texVars, uiVars, appVars>>

NextInterpolate ==
  \/ CallInterpolateGaps
  \/ CallInterpolateGapsAgain

InterpolateSpec == Init /\ [][NextInterpolate]_vars

\* ------------------------------------------------ the prepared data file

\* The stations of a data file as downloaded: d has a gap between two valid
\* days, e has one between days of opposite sign, f has no valid day and
\* starts a day before the others.
RawCatalogue ==
  { [name |-> "a", start |-> Day(10), lon |-> <<45, 90>>, lat |-> <<30, 45>>],
    [name |-> "d", start |-> Day(10), lon |-> <<45, 0, 135>>,
                                      lat |-> <<30, 0, 60>>],
    [name |-> "e", start |-> Day(10), lon |-> <<-90, 0, 90>>,
                                      lat |-> <<-30, 0, 30>>],
    [name |-> "f", start |-> Day(9), lon |-> <<0, 0>>, lat |-> <<0, 0>>] }

RECURSIVE RawSeqsUpTo(_)
\* The lists of at most n stations of the raw catalogue.
RawSeqsUpTo(n) ==
  IF n = 0 THEN {<<>>}
  ELSE LET shorter == RawSeqsUpTo(n - 1)
       IN shorter \cup
          { Append(s, b) : s \in {u \in shorter : Len(u) = n - 1},
                           b \in RawCatalogue }

\* prepareData: the data file after fillBeaconGaps, as 'data-ready' carries
\* it.
PreparedData ==
  { fillBeaconGaps(s) : s \in {u \in RawSeqsUpTo(MaxFilled) : Distinct(u)} }

\* overlay.setData(event.detail) with a prepared data file, once.
SetDataPrepared == calls = 0 /\ SetDataFrom(PreparedData) /\ UNCHANGED appVars

NextPrepared ==
  \/ SetDataPrepared
  \/ TimerFires
  \/ AnalyzeStep
  \/ AnalyzeDone
  \/ SetupBuffers
  \/ ProcessStep
  \/ ProcessDone
  \/ MediansStep
  \/ MediansDone

PreparedRun == Init /\ [][NextPrepared]_vars

\* ------------------------------------------------------- the application

\* createMarker that finds a position for every station.
createMarkerAnyway(beacon) == [threw |-> FALSE]

\* Map.createMarker(beacon): it throws unless some index holds a lat and a
\* lon that are both truthy.
createMarker(beacon) ==
  [threw |-> \A i \in 0..(Len(beacon.lat) - 1) :
               ~(Truthy(Elem(beacon.lat, i)) /\ Truthy(Elem(beacon.lon, i)))]

\* Map.setData(beacons): this.markers is assigned after the loop that
\* creates the markers, which the first throwing createMarker leaves.
mapSetData(old, beacons) ==
  IF \E k \in 1..Len(beacons) : createMarker(beacons[k]).threw
  THEN [markers |-> old, threw |-> TRUE]
  ELSE [markers |-> [k \in 1..Len(beacons) |-> beacons[k].name],
        threw |-> FALSE]

\* The data files 'data-ready' may carry: the empty file, a file of one
\* station, with and without a valid sample, and files of two stations of
\* which the first or the second has no valid sample.
DataFiles ==
  { s \in PreparedData :
      [k \in 1..Len(s) |-> s[k].name]
        \in {<<>>, <<"a">>, <<"f">>, <<"a", "f">>, <<"f", "d">>} }

\* The 'data-ready' listener: map.setData(event.detail), then
\* overlay.setData(event.detail); an exception ends the listener.
DataReady ==
  /\ pc = "idle"
  /\ dataReady.count < MaxSetData
  /\ \E detail \in DataFiles :
       LET map == mapSetData(markers, detail)
       IN /\ dataReady' = [count |-> dataReady.count + 1, detail |-> detail]
          /\ markers' = map.markers
          /\ IF map.threw
             THEN /\ threw' = TRUE
                  /\ emitted' = FALSE
                  /\ UNCHANGED <<processState, scene, timers, pc, elapsed,
                                 stretch, over, calls, run, preempted,
                                 lastEvent, readyCount, extentCount,
                                 setupCount, yields, phase, inOrder>>
                  /\ UNCHANGED <<texVars, gapVars, uiVars>>
             ELSE SetDataFrom({detail})

NextApp ==
  \/ DataReady
  \/ TimerFires
  \/ AnalyzeStep
  \/ AnalyzeDone
  \/ SetupBuffers
  \/ ProcessStep
  \/ ProcessDone
  \/ MediansStep
  \/ MediansDone

AppSpec == Init /\ [][NextApp]_vars

\* ------------------------------------------- WebMercator.getX used directly

\* The longitudes handed to getX: the whole degrees.
Longitudes == (-180)..180

\* geovelo.WebMercator.getX(a) and geovelo.WebMercator.getX(b)
CallGetX ==
  /\ ~projection.called
  /\ \E a, b \in Longitudes :
       projection' = [a |-> a, b |-> b, xa |-> GetX(a), xb |-> GetX(b),
                      called |-> TRUE]
  /\ UNCHANGED <<overlayVars, texVars, gapVars, appVars, timeRange>>

ProjectionSpec == Init /\ [][CallGetX]_vars

\* ------------------------------------------------------------------ TimeRange

\* Dates are their time values in ms, as unary + and the comparison operators
\* take them.
MS_PER_DAY == 1000 * 60 * 60 * 24

\* The Dates handed to setExtent and setRange: midnights of consecutive days.
Dates == {d * MS_PER_DAY : d \in 1..(MaxDays + 1)}

\* What timeScale.invert may return for the position of a pointer: the
\* midnights and noons from the day before the first Date to the day after
\* the last.
RawTimes == {h * (MS_PER_DAY \div 2) : h \in 0..(2 * (MaxDays + 2))}

\* rawTs - (rawTs % MS_PER_DAY) + new Date().getTimezoneOffset() * 60 * 1000,
\* lines 140-141 and 280-281, for rawTs >= 0 and a browser in UTC.
RoundToDay(rawTs) ==
  LET timezoneOffset == 0
  IN rawTs - (rawTs % MS_PER_DAY) + timezoneOffset * 60 * 1000

\* setExtent, lines 200-220, on the selector t. this.extendEnd of line 212
\* is a property the object does not have: undefined, and every comparison
\* with it is false.
setExtent(t, extentStart, extentEnd) ==
  IF extentStart >= extentEnd THEN [t EXCEPT !.threw = TRUE]
  ELSE LET extendEnd == NaN
       IN [t EXCEPT
             !.extentStart = extentStart,
             !.extentEnd = extentEnd,
             !.rangeStart = IF @ = NaN \/ Lt(@, extentStart)
                            THEN extentStart ELSE @,
             !.rangeEnd = IF @ = NaN \/ Lt(extendEnd, @)
                          THEN extentEnd ELSE @,
             !.threw = FALSE]

\* setRange, lines 230-255.
setRange(t, rangeStart, rangeEnd) ==
  IF rangeStart >= rangeEnd THEN [t EXCEPT !.threw = TRUE]
  ELSE IF t.extentStart = NaN \/ t.extentEnd = NaN
  THEN setExtent(t, rangeStart, rangeEnd)
  ELSE IF rangeStart < t.extentStart \/ rangeEnd > t.extentEnd
  THEN [t EXCEPT !.threw = TRUE]
  ELSE [t EXCEPT !.rangeStart = rangeStart, !.rangeEnd = rangeEnd,
                 !.threw = FALSE]

\* The 'drag' listener of the nubs, lines 134-155: i is 0 for the start nub
\* and 1 for the end nub.
drag(t, i, rawTs) ==
  LET ts == RoundToDay(rawTs)
  IN IF i = 0
     THEN [t EXCEPT !.rangeStart = Min(Max(ts, t.extentStart),
                                       t.rangeEnd - MS_PER_DAY),
                    !.threw = FALSE]
     ELSE [t EXCEPT !.rangeEnd = Min(Max(ts, t.rangeStart + MS_PER_DAY),
                                     t.extentEnd),
                    !.threw = FALSE]

\* clickHandler, lines 261-294.
clickHandler(t, rawTs, defaultPrevented) ==
  IF t.extentStart = NaN \/ t.extentEnd = NaN THEN [t EXCEPT !.threw = TRUE]
  ELSE IF defaultPrevented THEN [t EXCEPT !.threw = FALSE]
  ELSE LET ts == Min(Max(RoundToDay(rawTs), t.extentStart), t.extentEnd)
           abs(v) == IF v < 0 THEN -v ELSE v
       IN IF abs(ts - t.rangeStart) < abs(ts - t.rangeEnd)
          THEN [t EXCEPT !.rangeStart = ts, !.threw = FALSE]
          ELSE [t EXCEPT !.rangeEnd = ts, !.threw = FALSE]

\* timeRange.setExtent(extentStart, extentEnd)
CallSetExtent ==
  /\ \E extentStart, extentEnd \in Dates :
       timeRange' = [setExtent(timeRange, extentStart, extentEnd)
                       EXCEPT !.op = "setExtent",
                              !.args = <<extentStart, extentEnd>>]
  /\ UNCHANGED <<overlayVars, texVars, gapVars, appVars, projection>>

\* timeRange.setRange(rangeStart, rangeEnd)
CallSetRange ==
  /\ \E rangeStart, rangeEnd \in Dates :
       timeRange' = [setRange(timeRange, rangeStart, rangeEnd)
                       EXCEPT !.op = "setRange",
                              !.args = <<rangeStart, rangeEnd>>]
  /\ UNCHANGED <<overlayVars, texVars, gapVars, appVars, projection>>

\* A nub is dragged: the nubs exist once draw() has run, which setExtent
\* calls when it first succeeds.
Drag ==
  /\ timeRange.extentStart # NaN
  /\ \E i \in {0, 1}, rawTs \in RawTimes :
       timeRange' = [drag(timeRange, i, rawTs)
                       EXCEPT !.op = "drag", !.args = <<i, rawTs>>]
  /\ UNCHANGED <<overlayVars, texVars, gapVars, appVars, projection>>

\* The timeline is clicked.
Click ==
  /\ \E rawTs \in RawTimes, defaultPrevented \in BOOLEAN :
       timeRange' = [clickHandler(timeRange, rawTs, defaultPrevented)
                       EXCEPT !.op = "click", !.args = <<rawTs>>]
  /\ UNCHANGED <<overlayVars, texVars, gapVars, appVars, projection>>

NextTimeRange ==
  \/ CallSetExtent
  \/ CallSetRange
  \/ Drag
  \/ Click

TimeRangeSpec == Init /\ [][NextTimeRange]_vars

\* ------------------------------------------------- the pipeline run alone

RECURSIVE AnalyzeAll(_)
\* The loop of analyzeData run to its end without the budget being spent.
AnalyzeAll(state) ==
  IF Lt(state.beaconIndex, Len(state.rawBeacons))
  THEN AnalyzeAll(analyzeDataBody(state))
  ELSE state

RECURSIVE ProcessAll(_)
\* The loops of processData run to their end without the budget being spent.
ProcessAll(state) ==
  IF Lt(state.beaconIndex, Len(state.rawBeacons))
  THEN LET done == processDataBody(state)
       IN IF done.threw THEN done.state ELSE ProcessAll(done.state)
  ELSE state

RECURSIVE MediansAll(_)
\* The loop of computeMedians run to its end without the budget being spent.
MediansAll(state) ==
  IF Leq(state.currentTimestamp, state.endTimestamp)
  THEN LET done == computeMediansBody(state)
       IN IF done.threw THEN done.state ELSE MediansAll(done.state)
  ELSE state

\* The processState that setData(rawBeacons) ends with when no clock test
\* ever finds the budget spent and no other setData call is made.
RunAlone(rawBeacons) ==
  LET analyzed == AnalyzeAll(analyzeDataInit(NewProcessState(rawBeacons), TRUE))
      made == setupBuffersBody(analyzed)
  IN IF made.threw THEN made.state
     ELSE MediansAll(computeMediansInit(
            ProcessAll(processDataInit(made.state, TRUE)), TRUE))

\* What the renderer is handed: the texture's data and the position array.
Contents(state) == [data |-> state.texture.data, positions |-> state.positions]

RECURSIVE SumVertices(_)
\* The sum of lon.length + 2 over the stations of a list.
SumVertices(rawBeacons) ==
  IF rawBeacons = <<>> THEN 0
  ELSE Len(Head(rawBeacons).lon) + 2 + SumVertices(Tail(rawBeacons))

\* A loop pass is about to begin: the running handler is at a loop test
\* that succeeds.
PassPending ==
  \/ pc = "analyzeData"
       /\ Lt(processState.beaconIndex, Len(processState.rawBeacons))
  \/ pc = "processData"
       /\ Lt(processState.beaconIndex, Len(processState.rawBeacons))
  \/ pc = "computeMedians"
       /\ Leq(processState.currentTimestamp, processState.endTimestamp)

\* 'ready' has just been dispatched.
ReadyEmitted == emitted /\ lastEvent.status = "ready"

\* ------------------------------------------------------------------ claims

\* C1: once setData has been called while a continuation of an earlier run
\* is pending, that continuation, when it fires, is dropped: no step of a
\* handler that descends from an earlier setData call changes the
\* processState, dispatches an event or throws.
C1_StaleContinuationDropped ==
  [][(pc # "idle" /\ run # calls)
       => (processState' = processState /\ ~emitted' /\ ~threw')]_vars

\* C2: when setData was called while the earlier run was suspended in
\* processData, the texture data and the position array that exist when
\* 'ready' is dispatched are those of the pipeline run on the new station
\* list alone.
C2_SupersededFillLeavesNoTrace ==
  (calls >= 2 /\ preempted = "processData" /\ ReadyEmitted)
    => Contents(processState) = Contents(RunAlone(processState.rawBeacons))

\* C3: after a setData call that supersedes an earlier run, the buffers are
\* set up exactly once for that call and the position array holds the sum of
\* lon.length + 2 over the new station list.
C3_NoMergedPipelines ==
  /\ setupCount <= 1
  /\ setupCount = 1
       => Len(processState.positions) = SumVertices(processState.rawBeacons)

\* The phase a status label belongs to.
PhaseOfStatus(status) ==
  CASE status = "analyzing data..." -> PhaseIndex("analyzeData")
    [] status = "adding beacon lines..." -> PhaseIndex("processData")
    [] status = "computing medians..." -> PhaseIndex("computeMedians")
    [] status = "ready" -> PhaseIndex("ready")
    [] OTHER -> 0

\* C4: in a single run the phases run in the order analyzeData,
\* setupBuffers, processData, computeMedians, ready: every step belongs to
\* the phase of the step before it or to the next one, every progress event
\* carries the label of the phase that is running, no phase runs twice, and
\* 'ready' is dispatched only after all of them.
C4_PhasesInOrder ==
  /\ inOrder
  /\ (emitted /\ lastEvent.type = "status-update")
       => PhaseOfStatus(lastEvent.status) = phase
  /\ setupCount <= 1 /\ extentCount <= 1 /\ readyCount <= 1
  /\ readyCount = 1 => (phase = Len(PhaseOrder) /\ setupCount = 1)

\* C4 witness: a single run has reached 'ready' after yielding in each of
\* the three incremental phases.
C4_Witness ==
  /\ ReadyEmitted
  /\ yields = {analyzeDataCallback, processDataCallback, computeMediansCallback}

\* C5: 'ready' is dispatched once and is terminal: once it has been
\* dispatched, until the next setData call no event is dispatched and neither
\* the texture nor the median arrays change.
C5_ReadyOnceAndTerminal ==
  [][(readyCount >= 1 /\ calls' = calls)
       => /\ ~emitted'
          /\ readyCount' = readyCount
          /\ processState'.texture = processState.texture
          /\ processState'.medianLons = processState.medianLons
          /\ processState'.medianLats = processState.medianLats]_vars

\* C6: a run that is not superseded reaches 'ready': when no handler runs
\* and no callback is pending after a setData call, 'ready' has been
\* dispatched.
C6_RunReachesReady ==
  (calls >= 1 /\ pc = "idle" /\ timers = <<>>) => readyCount >= 1

\* C7: in a single run the texture data and the position array that exist
\* at 'ready' do not depend on where the yields fell: they are those of the
\* run in which no clock test finds the budget spent.
C7_YieldIndependent ==
  readyCount >= 1
    => Contents(processState) = Contents(RunAlone(processState.rawBeacons))

\* C7 witness: a single run on a list of at least two stations has reached
\* 'ready' after processData was suspended and resumed.
C7_Witness ==
  /\ readyCount = 1
  /\ processDataCallback \in yields
  /\ Len(processState.rawBeacons) >= 2
  /\ processState.positionIndex >= 4

\* C8: every progress event carries a fraction between 0 and 1.
C8_FractionInUnitInterval ==
  lastEvent.type = "status-update"
    => /\ lastEvent.progress[2] > 0
       /\ 0 <= lastEvent.progress[1]
       /\ lastEvent.progress[1] <= lastEvent.progress[2]

\* C9: within one call of a phase function at most one more loop pass is
\* begun once the elapsed time has reached maxProcessingTime.
C9_OnePassOverBudget == over <= 1

\* C10: a handler returns to the event loop within the budget plus one loop
\* pass: when it begins a loop pass it has worked for no longer than
\* maxProcessingTime. Stated for the handlers that have gone from one phase
\* function into the next and have not spent the budget of the current one.
C10_StretchWithinBudget ==
  (PassPending /\ ~BudgetSpent(elapsed)) => stretch <= maxProcessingTime

\* C11: in a single run the extent is announced once, by the step that finds
\* every station analyzed, with the extrema of the analysis, before anything
\* is allocated or written; a yield of analyzeData never announces it.
C11_ExtentOnceAfterAnalyze ==
  /\ extentCount <= 1
  /\ (emitted /\ lastEvent.type = "extent-changed")
       => /\ pc = "setupBuffers"
          /\ extentCount = 1
          /\ processState.beaconIndex = Len(processState.rawBeacons)
          /\ lastEvent.extent = <<processState.startTimestamp,
                                  processState.endTimestamp>>
          /\ setupCount = 0
          /\ ~processState.texture.alloc
          /\ processState.positions = <<>>
  /\ pc = "analyzeData" => extentCount = 0
  /\ (pc \in {"setupBuffers", "processData", "computeMedians"}
        \/ setupCount >= 1 \/ readyCount >= 1) => extentCount = 1

\* C11 witness: the extent has just been announced in a run on at least two
\* stations in which analyzeData yielded.
C11_Witness ==
  /\ emitted /\ lastEvent.type = "extent-changed"
  /\ analyzeDataCallback \in yields
  /\ Len(processState.rawBeacons) >= 2

RECURSIVE MinStart(_)
\* The least start of the stations of a list.
MinStart(rawBeacons) ==
  IF rawBeacons = <<>> THEN Infinity
  ELSE Min(Head(rawBeacons).start, MinStart(Tail(rawBeacons)))

RECURSIVE MaxLastSample(_)
\* The greatest timestamp of a last sample, start + 86400 * (len - 1), of the
\* stations of a list.
MaxLastSample(rawBeacons) ==
  IF rawBeacons = <<>> THEN NegInfinity
  ELSE Max(Head(rawBeacons).start
             + SECONDS_PER_DAY * (Len(Head(rawBeacons).lon) - 1),
           MaxLastSample(Tail(rawBeacons)))

\* Every station of the list has at least one sample.
AllSampled(rawBeacons) ==
  \A k \in 1..Len(rawBeacons) : Len(rawBeacons[k].lon) >= 1

\* C12: when analyzeData has visited every station of a list that is not
\* empty and whose stations all have samples, startTimestamp is the least
\* start and endTimestamp is the greatest start + 86400 * (len - 1), and
\* these are the extent that is announced.
C12_ExtentIsFirstToLastSample ==
  (/\ pc = "setupBuffers"
   /\ processState.rawBeacons # <<>>
   /\ AllSampled(processState.rawBeacons))
    => /\ processState.startTimestamp = MinStart(processState.rawBeacons)
       /\ processState.endTimestamp = MaxLastSample(processState.rawBeacons)
       /\ lastEvent.extent = <<MinStart(processState.rawBeacons),
                               MaxLastSample(processState.rawBeacons)>>

\* C13: in a single run totalVertexCount is, at every loop test of
\* analyzeData, the sum of lon.length + 2 over the stations visited so far,
\* so that when the loop is over it is the sum over all stations wherever the
\* yields fell; the position array is allocated with that many records.
C13_TotalVertexCount ==
  /\ pc = "analyzeData"
       => processState.totalVertexCount
            = SumVertices(SubSeq(processState.rawBeacons, 1,
                                 processState.beaconIndex))
  /\ pc = "setupBuffers"
       => processState.totalVertexCount = SumVertices(processState.rawBeacons)
  /\ setupCount >= 1
       => /\ processState.totalVertexCount = SumVertices(processState.rawBeacons)
          /\ Len(processState.positions) = SumVertices(processState.rawBeacons)

\* C13 witness: the buffers have been set up in a run on at least two
\* stations in which analyzeData yielded.
C13_Witness ==
  /\ pc = "processData"
  /\ setupCount = 1
  /\ analyzeDataCallback \in yields
  /\ Len(processState.rawBeacons) >= 2
  /\ Len(processState.positions) >= 6

\* C14: a texture constructed for beaconCount stations and a span of whole
\* days has timestampCount = (end - start) / 86400 + 1, width =
\* ceil((timestampCount + 1) / 2), height = beaconCount + 1 and a buffer of
\* width * height * 4 elements, all zero.
C14_ConstructedLayout ==
  call.op = "construct"
    => LET tex == beaconVertexTexture
       IN /\ tex.beaconCount = call.beaconIndex
          /\ (tex.timestampCount - 1) * SECONDS_PER_DAY
               = call.timestamp - TexStart
          /\ 2 * tex.width \in {tex.timestampCount + 1, tex.timestampCount + 2}
          /\ tex.height = tex.beaconCount + 1
          /\ Len(tex.data) = tex.width * tex.height * 4
          /\ \A k \in 1..Len(tex.data) : tex.data[k] = 0

\* C14 witness: a texture has just been constructed for two stations and an
\* even number of days.
C14_Witness ==
  /\ call.op = "construct"
  /\ beaconVertexTexture.beaconCount = 2
  /\ beaconVertexTexture.timestampCount = 2
  /\ Len(beaconVertexTexture.data) = 24

\* The rows and time indexes a texture addresses: -1 is the row of the
\* medians and the slot of the base.
Rows(tex) == (-1)..(tex.beaconCount - 1)

TimeIndexes(tex) == (-1)..(tex.timestampCount - 1)

\* The two elements of the slot that starts at an offset.
Slot(offset) == {offset, offset + 1}

\* C15: in every texture, for every row in -1..beaconCount-1 and every time
\* index in -1..timestampCount-1, the slot at computeOffset lies inside the
\* buffer and inside the width * 4 elements of its row, and the slots of
\* distinct pairs are disjoint.
C15_SlotsInsideAndDisjoint ==
  beaconVertexTexture.alloc
    => LET tex == beaconVertexTexture
       IN /\ \A row \in Rows(tex), timeIndex \in TimeIndexes(tex) :
               LET offset == computeOffset(tex, row, timeIndex)
               IN /\ 0 <= offset
                  /\ offset + 1 <= tex.width * tex.height * 4 - 1
                  /\ offset + 1 <= Len(tex.data) - 1
                  /\ (row + 1) * tex.width * 4 <= offset
                  /\ offset + 1 <= (row + 2) * tex.width * 4 - 1
          /\ \A r1, r2 \in Rows(tex), t1, t2 \in TimeIndexes(tex) :
               <<r1, t1>> # <<r2, t2>>
                 => Slot(computeOffset(tex, r1, t1))
                      \cap Slot(computeOffset(tex, r2, t2)) = {}

\* C15 witness: two setter calls have written two different slots of a
\* texture, and both pairs of values are in the buffer.
C15_Witness ==
  /\ call.count = 2
  /\ ~call.threw
  /\ Cardinality({k \in 1..Len(beaconVertexTexture.data) :
                    beaconVertexTexture.data[k] # 0}) = 4

\* The first of the two channels of a 4-channel cell that a day index
\* selects when the even days are in R,G and the odd days in B,A.
EvenInRG(timeIndex) == IF timeIndex % 2 = 0 THEN 0 ELSE 2

\* The same when the odd days are in R,G and the even days in B,A.
EvenInBA(timeIndex) == IF timeIndex % 2 = 0 THEN 2 ELSE 0

\* The last call was a setBeaconLonLat that wrote a slot of a station's row.
SampleWritten ==
  /\ call.op = "setBeaconLonLat"
  /\ ~call.threw
  /\ call.beaconIndex >= 0

\* C16 as stated: the slot of (row, t) is the R,G pair of its cell when t is
\* even and the B,A pair when t is odd.
C16_EvenDayInRG ==
  beaconVertexTexture.alloc
    => \A row \in Rows(beaconVertexTexture),
          t \in 0..(beaconVertexTexture.timestampCount - 1) :
         computeOffset(beaconVertexTexture, row, t) % 4 = EvenInRG(t)

\* C16 amended: the slot of (row, t) is the B,A pair of its cell when t is
\* even and the R,G pair when t is odd (the R,G pair of the first cell of a
\* row holds the base), and a sample written for day t of a station is found
\* in that pair of cell (t + 1) div 2 of the station's row.
C16_EvenDayInBA ==
  /\ beaconVertexTexture.alloc
       => \A row \in Rows(beaconVertexTexture),
             t \in 0..(beaconVertexTexture.timestampCount - 1) :
            /\ computeOffset(beaconVertexTexture, row, t) % 4 = EvenInBA(t)
            /\ computeOffset(beaconVertexTexture, row, -1) % 4 = 0
  /\ SampleWritten
       => LET tex == beaconVertexTexture
              t == (call.timestamp - tex.startTimestamp) \div SECONDS_PER_DAY
              cell == (call.beaconIndex + 1) * tex.width + (t + 1) \div 2
          IN /\ tex.data[cell * 4 + EvenInBA(t) + 1] = call.lon
             /\ tex.data[cell * 4 + EvenInBA(t) + 2] = call.lat

\* C16 witness: a sample has been written for an even day of a station.
C16_Witness ==
  /\ SampleWritten
  /\ call.timestamp = beaconVertexTexture.startTimestamp + 2 * SECONDS_PER_DAY
  /\ call.beaconIndex = 1

\* The last call was a setter that wrote a slot of the texture.
SlotWritten ==
  /\ call.op \in {"setBeaconLonLat", "setMedianLonLat", "setBaseLonLat"}
  /\ ~call.threw
  /\ call.beaconIndex >= -1

\* C17: for every row in -1..beaconCount-1 and every time index in
\* -1..timestampCount-1 the element at which lookupPosition of the vertex
\* shader reads is the one computeOffset addresses, and lookupPosition
\* returns the pair a setter has just written.
C17_ShaderReadsWhatWasWritten ==
  /\ beaconVertexTexture.alloc
       => \A row \in Rows(beaconVertexTexture),
             timeIndex \in TimeIndexes(beaconVertexTexture) :
            lookupOffset(beaconVertexTexture, timeIndex, row)
              = computeOffset(beaconVertexTexture, row, timeIndex)
  /\ SlotWritten
       => lookupPosition(beaconVertexTexture,
                         (call.timestamp - beaconVertexTexture.startTimestamp)
                           \div SECONDS_PER_DAY,
                         call.beaconIndex)
            = <<call.lon, call.lat>>

\* C17 witness: a median has been written for an odd day.
C17_Witness ==
  /\ call.op = "setMedianLonLat"
  /\ ~call.threw
  /\ call.timestamp = beaconVertexTexture.startTimestamp + SECONDS_PER_DAY

\* A station index outside 0..beaconCount-1, a timestamp outside
\* [startTimestamp, endTimestamp].
IndexOutOfRange(tex, beaconIndex) ==
  beaconIndex < 0 \/ beaconIndex > tex.beaconCount - 1

TimestampOutOfRange(tex, timestamp) ==
  timestamp < tex.startTimestamp \/ timestamp > tex.endTimestamp

\* C18: setBeaconLonLat throws for every station index outside
\* 0..beaconCount-1 (the negative ones included) and every timestamp outside
\* [startTimestamp, endTimestamp], setBaseLonLat for every such station
\* index, setMedianLonLat for every such timestamp; a call that is to throw
\* changes no element of the buffer and not needsUpdate.
C18_SettersRejectOutOfRange ==
  [][LET tex == beaconVertexTexture
         mustThrow ==
           \/ /\ call'.op \in {"setBeaconLonLat", "setBaseLonLat"}
              /\ IndexOutOfRange(tex, call'.beaconIndex)
           \/ /\ call'.op \in {"setBeaconLonLat", "setMedianLonLat"}
              /\ TimestampOutOfRange(tex, call'.timestamp)
     IN mustThrow => (call'.threw /\ beaconVertexTexture' = tex)]_vars

\* processData has finished every station.
FillComplete ==
  /\ setupCount = 1
  /\ processState.beaconIndex = Len(processState.rawBeacons)

\* Sample i (from 0) of a station is missing: its lon or its lat is 0.
Missing(beacon, i) == beacon.lon[i + 1] = 0 \/ beacon.lat[i + 1] = 0

RECURSIVE InteriorOfStation(_, _, _)
\* The records {stationIndex, start, start + 86400 * i} of the samples of a
\* station that are not missing, from sample i on, in ascending order.
InteriorOfStation(beacon, stationIndex, i) ==
  IF i >= Len(beacon.lon) THEN <<>>
  ELSE (IF Missing(beacon, i) THEN <<>>
        ELSE <<Vertex(stationIndex, beacon.start,
                      beacon.start + SECONDS_PER_DAY * i)>>)
       \o InteriorOfStation(beacon, stationIndex, i + 1)

RECURSIVE InteriorOf(_, _)
\* The same for the stations of a list from station k (from 1) on, in the
\* order of the list.
InteriorOf(rawBeacons, k) ==
  IF k > Len(rawBeacons) THEN <<>>
  ELSE InteriorOfStation(rawBeacons[k], k - 1, 0) \o InteriorOf(rawBeacons, k + 1)

\* The position records written so far.
Written(state) == SubSeq(state.positions, 1, state.positionIndex)

\* A record whose timestamp is finite.
IsInterior(v) == v[3] # Infinity /\ v[3] # NegInfinity

\* C19: when processData has finished every station of a single run, the
\* records with a finite timestamp among those it wrote are one record
\* {stationIndex, start, start + 86400 * i} for each sample that is not
\* missing, by station in input order and by i ascending; the slot of a
\* missing sample has not been written.
C19_InteriorRecords ==
  FillComplete
    => /\ SelectSeq(Written(processState), IsInterior)
            = InteriorOf(processState.rawBeacons, 1)
       /\ \A k \in 1..Len(processState.rawBeacons) :
            \A i \in 0..(Len(processState.rawBeacons[k].lon) - 1) :
              Missing(processState.rawBeacons[k], i)
                => LET tex == processState.texture
                       offset == computeOffset(tex, k - 1,
                                   getTimeIndex(tex,
                                     processState.rawBeacons[k].start
                                       + SECONDS_PER_DAY * i))
                   IN tex.data[offset + 1] = 0 /\ tex.data[offset + 2] = 0

\* C19 witness: processData has finished a list of at least two stations,
\* one of them with a missing sample, after it was suspended and resumed.
C19_Witness ==
  /\ FillComplete
  /\ pc = "computeMedians"
  /\ processDataCallback \in yields
  /\ Len(processState.rawBeacons) >= 2
  /\ \E k \in 1..Len(processState.rawBeacons) :
       /\ Len(processState.rawBeacons[k].lon) = 2
       /\ Missing(processState.rawBeacons[k], 0)

\* The records of station stationIndex (from 0) among those written.
RunOf(state, stationIndex) ==
  SelectSeq(Written(state), LAMBDA v : v[1] = stationIndex)

\* C20: when processData has finished every station, the run of records of
\* every station that has records starts with a record whose timestamp is
\* -Infinity and ends with one whose timestamp is Infinity, and no two
\* records next to each other are interior records of different stations.
C20_RunsBracketed ==
  FillComplete
    => /\ \A k \in 1..Len(processState.rawBeacons) :
            LET records == RunOf(processState, k - 1)
            IN records # <<>>
                 => /\ records[1][3] = NegInfinity
                    /\ records[Len(records)][3] = Infinity
       /\ \A n \in 1..(processState.positionIndex - 1) :
            LET v == processState.positions[n]
                w == processState.positions[n + 1]
            IN (IsInterior(v) /\ IsInterior(w)) => v[1] = w[1]

RECURSIVE FirstValid(_, _)
\* The index (from 0) of the first sample of a station, from i on, that is
\* not missing; the number of samples when there is none.
FirstValid(beacon, i) ==
  IF i >= Len(beacon.lon) THEN Len(beacon.lon)
  ELSE IF Missing(beacon, i) THEN FirstValid(beacon, i + 1) ELSE i

\* The pair at the slot of (beaconIndex, timeIndex) of a texture.
PairAt(tex, beaconIndex, timeIndex) ==
  <<tex.data[computeOffset(tex, beaconIndex, timeIndex) + 1],
    tex.data[computeOffset(tex, beaconIndex, timeIndex) + 2]>>

\* C21: when processData has finished every station, the base slot of every
\* station that has a valid sample holds the projection of its first valid
\* sample, and the slot of every valid sample holds its projection minus
\* that base.
C21_BaseIsFirstValidSample ==
  FillComplete
    => \A k \in 1..Len(processState.rawBeacons) :
         LET beacon == processState.rawBeacons[k]
             tex == processState.texture
             first == FirstValid(beacon, 0)
             baseX == GetX(beacon.lon[first + 1])
             baseY == GetY(beacon.lat[first + 1])
         IN first < Len(beacon.lon)
              => /\ PairAt(tex, k - 1, -1) = <<baseX, baseY>>
                 /\ \A i \in 0..(Len(beacon.lon) - 1) :
                      ~Missing(beacon, i)
                        => PairAt(tex, k - 1,
                                  getTimeIndex(tex, beacon.start
                                                      + SECONDS_PER_DAY * i))
                             = <<GetX(beacon.lon[i + 1]) - baseX,
                                 GetY(beacon.lat[i + 1]) - baseY>>

\* The k-th smallest of a non-empty list of numbers, k from 1.
KthSmallest(values, k) ==
  CHOOSE v \in {values[i] : i \in 1..Len(values)} :
    /\ Cardinality({i \in 1..Len(values) : values[i] < v}) < k
    /\ k <= Cardinality({i \in 1..Len(values) : values[i] <= v})

\* The statistical median of a list of numbers, 0 for the empty list.
Median(values) ==
  LET n == Len(values)
  IN IF n = 0 THEN 0
     ELSE IF n % 2 = 1 THEN KthSmallest(values, (n + 1) \div 2)
     ELSE (KthSmallest(values, n \div 2)
             + KthSmallest(values, n \div 2 + 1)) \div 2

\* The samples of a station before sample i that are not missing.
Earlier(beacon, i) == {q \in 0..(i - 1) : ~Missing(beacon, q)}

\* Whether a station has a sample on day d that is not missing and an earlier
\* one that is not missing either.
Contributes(beacon, d) ==
  /\ d >= beacon.start
  /\ (d - beacon.start) \div SECONDS_PER_DAY < Len(beacon.lon)
  /\ ~Missing(beacon, (d - beacon.start) \div SECONDS_PER_DAY)
  /\ Earlier(beacon, (d - beacon.start) \div SECONDS_PER_DAY) # {}

\* The delta of a contributing station on day d: the projection of its
\* sample on d minus that of its nearest earlier sample that is not missing.
Contribution(beacon, d) ==
  LET i == (d - beacon.start) \div SECONDS_PER_DAY
      p == CHOOSE q \in Earlier(beacon, i) :
             \A r \in Earlier(beacon, i) : r <= q
  IN <<GetX(beacon.lon[i + 1]) - GetX(beacon.lon[p + 1]),
       GetY(beacon.lat[i + 1]) - GetY(beacon.lat[p + 1])>>

RECURSIVE DayDeltas(_, _, _, _)
\* D_d: the deltas of the contributing stations from station k (from 1) on.
DayDeltas(rawBeacons, k, d, axis) ==
  IF k > Len(rawBeacons) THEN <<>>
  ELSE (IF Contributes(rawBeacons[k], d)
        THEN <<Contribution(rawBeacons[k], d)[axis]>>
        ELSE <<>>)
       \o DayDeltas(rawBeacons, k + 1, d, axis)

RECURSIVE Cumulative(_, _, _, _)
\* cumulative(d) for d the n-th day (from 0) after startTimestamp.
Cumulative(rawBeacons, startTimestamp, n, axis) ==
  (IF n = 0 THEN 0
   ELSE Cumulative(rawBeacons, startTimestamp, n - 1, axis))
  + Median(DayDeltas(rawBeacons, 1, startTimestamp + n * SECONDS_PER_DAY,
                     axis))

\* The number of days in [startTimestamp, endTimestamp] of a run.
DayCount(state) ==
  (state.endTimestamp - state.startTimestamp) \div SECONDS_PER_DAY + 1

\* C22: every day whose median computeMedians has computed holds, in the
\* median row of the texture, the cumulative sum over the days so far of the
\* medians of the stations' deltas, longitude and latitude each on its own;
\* and when 'ready' is announced every day from startTimestamp to
\* endTimestamp has been computed.
C22_MedianRowIsCumulativeMedian ==
  /\ (phase >= PhaseIndex("computeMedians") /\ ~threw)
       => \A n \in 0..(Len(processState.medianLons) - 1) :
            PairAt(processState.texture, -1, n)
              = <<Cumulative(processState.rawBeacons,
                             processState.startTimestamp, n, 1),
                  Cumulative(processState.rawBeacons,
                             processState.startTimestamp, n, 2)>>
  /\ readyCount >= 1
       => Len(processState.medianLons) = DayCount(processState)

\* 'ready' is announced for a data file in which, on one day, two stations
\* contribute different deltas and one of them has a missing sample between
\* the day and its earlier sample.
C22_Witness ==
  /\ readyCount >= 1
  /\ \E n \in 0..(DayCount(processState) - 1) :
       LET d == processState.startTimestamp + n * SECONDS_PER_DAY
           lons == DayDeltas(processState.rawBeacons, 1, d, 1)
       IN /\ Len(lons) = 2
          /\ lons[1] # lons[2]
          /\ \E k \in 1..Len(processState.rawBeacons) :
               LET beacon == processState.rawBeacons[k]
                   i == (d - beacon.start) \div SECONDS_PER_DAY
               IN /\ Contributes(beacon, d)
                  /\ Missing(beacon, i - 1)

\* Whether no station of the run contributes a delta on its n-th day.
NoContribution(state, n) ==
  \A k \in 1..Len(state.rawBeacons) :
    ~Contributes(state.rawBeacons[k],
                 state.startTimestamp + n * SECONDS_PER_DAY)

\* C23: a computed day on which no station contributes a delta holds, in the
\* median row, the pair of the day before it, and the pair <<0, 0>> if it is
\* the first day.
C23_NoDeltaKeepsCumulative ==
  (phase >= PhaseIndex("computeMedians") /\ ~threw)
    => \A n \in 0..(Len(processState.medianLons) - 1) :
         NoContribution(processState, n)
           => PairAt(processState.texture, -1, n)
                = IF n = 0 THEN <<0, 0>>
                  ELSE PairAt(processState.texture, -1, n - 1)

\* A day without a contribution has been computed after a day that left the
\* cumulative medians different from 0.
C23_Witness ==
  /\ phase >= PhaseIndex("computeMedians")
  /\ ~threw
  /\ \E n \in 1..(Len(processState.medianLons) - 1) :
       /\ NoContribution(processState, n)
       /\ PairAt(processState.texture, -1, n - 1)[1] # 0
       /\ PairAt(processState.texture, -1, n - 1)[2] # 0

\* The indexes of an array below j, and above j, that hold a valid value.
ValidBelow(a, j) == {x \in 0..(j - 1) : Truthy(Elem(a, x))}

ValidAbove(a, j) == {x \in (j + 1)..(Len(a) - 1) : Truthy(Elem(a, x))}

\* Whether index j of an array is missing and lies between two valid values.
InteriorGap(a, j) ==
  /\ ~Truthy(Elem(a, j))
  /\ ValidBelow(a, j) # {}
  /\ ValidAbove(a, j) # {}

\* The value on the straight line through the nearest valid values on either
\* side of index j.
OnTheLine(a, j) ==
  LET x1 == CHOOSE x \in ValidBelow(a, j) : \A w \in ValidBelow(a, j) : w <= x
      x2 == CHOOSE x \in ValidAbove(a, j) : \A w \in ValidAbove(a, j) : x <= w
  IN Interpolated(Elem(a, x1), Elem(a, x2), x1, x2, j)

\* C24: after interpolateGaps(arry) every index that was missing between two
\* valid values holds the value on the straight line through the nearest
\* valid value below it and the nearest valid value above it.
C24_InteriorGapsInterpolated ==
  applied >= 1
    => \A j \in 0..(Len(arry) - 1) :
         InteriorGap(arry, j) => Elem(filled, j) = OnTheLine(arry, j)

\* interpolateGaps has been called on an array with a gap that starts at
\* index 1 and a second gap that ends at the last index.
C24_Witness ==
  /\ applied = 1
  /\ Len(arry) >= 5
  /\ InteriorGap(arry, 1)
  /\ Truthy(Elem(arry, 0))
  /\ InteriorGap(arry, Len(arry) - 2)
  /\ Truthy(Elem(arry, Len(arry) - 1))
  /\ \E j \in 2..(Len(arry) - 3) : Truthy(Elem(arry, j))

\* C25: interpolateGaps(arry) returns, the array keeps its length, every
\* valid element keeps its value, and every missing element with no valid
\* element below it or none above it is left as it was (an array without a
\* valid element is left as it was altogether).
C25_InterpolateGapsFrame ==
  applied >= 1
    => /\ returned
       /\ Len(filled) = Len(arry)
       /\ \A j \in 0..(Len(arry) - 1) :
            (Truthy(Elem(arry, j)) \/ ~InteriorGap(arry, j))
              => Elem(filled, j) = Elem(arry, j)

\* interpolateGaps has filled a gap of an array that begins and ends with a
\* missing element.
C25_Witness ==
  /\ applied = 1
  /\ returned
  /\ Len(arry) >= 5
  /\ ~Truthy(Elem(arry, 0))
  /\ ~Truthy(Elem(arry, Len(arry) - 1))
  /\ \E j \in 0..(Len(arry) - 1) :
       InteriorGap(arry, j) /\ Elem(filled, j) # Elem(arry, j)

\* C26: interpolateGaps called on the array a first call returned leaves
\* every element as it was.
C26_InterpolateGapsIdempotent ==
  applied = 2 => (returned /\ filled = arry)

\* C27: when processData has finished every station of a prepared data file,
\* every station whose first and last sample are valid has one record for
\* each of its samples between a leading and a trailing separator.
C27_FilledStationHasAllVertices ==
  FillComplete
    => \A k \in 1..Len(processState.rawBeacons) :
         LET beacon == processState.rawBeacons[k]
             len == Len(beacon.lon)
             records == RunOf(processState, k - 1)
         IN (len >= 1 /\ ~Missing(beacon, 0) /\ ~Missing(beacon, len - 1))
              => /\ Len(records) = len + 2
                 /\ records[1][3] = NegInfinity
                 /\ records[len + 2][3] = Infinity
                 /\ Len(SelectSeq(records, IsInterior)) = len

\* A station that has samples, all of them missing.
AllMissing(beacon) ==
  /\ Len(beacon.lon) >= 1
  /\ \A i \in 0..(Len(beacon.lon) - 1) : Missing(beacon, i)

\* The station list with the samples of every such station taken away.
WithoutMissing(rawBeacons) ==
  [k \in 1..Len(rawBeacons) |->
     IF AllMissing(rawBeacons[k])
     THEN [rawBeacons[k] EXCEPT !.lon = <<>>, !.lat = <<>>]
     ELSE rawBeacons[k]]

\* The records written for the stations that have a sample that is not
\* missing.
RecordsOfOthers(state) ==
  SelectSeq(Written(state), LAMBDA v : ~AllMissing(state.rawBeacons[v[1] + 1]))

\* C28: in a run on a data file with a station whose samples are all missing
\* no step throws and a run that has come to rest has announced 'ready';
\* no record written with a finite timestamp has that station's index and
\* the cells of its samples hold 0; and when processData has finished, the
\* records written for the other stations, their base cells and the cells of
\* their samples are those of the run on the file without that station's
\* samples.
C28_AllMissingStationTolerated ==
  \A k \in 1..Len(processState.rawBeacons) :
    LET beacon == processState.rawBeacons[k]
        tex == processState.texture
        alone == RunAlone(WithoutMissing(processState.rawBeacons))
    IN AllMissing(beacon)
         => /\ ~threw
            /\ (pc = "idle" /\ timers = <<>>) => readyCount = 1
            /\ \A n \in 1..Len(Written(processState)) :
                 IsInterior(Written(processState)[n])
                   => Written(processState)[n][1] # k - 1
            /\ tex.alloc
                 => \A i \in 0..(Len(beacon.lon) - 1) :
                      PairAt(tex, k - 1,
                             getTimeIndex(tex, beacon.start
                                                 + SECONDS_PER_DAY * i))
                        = <<0, 0>>
            /\ FillComplete
                 => /\ RecordsOfOthers(processState) = RecordsOfOthers(alone)
                    /\ \A j \in 1..Len(processState.rawBeacons) :
                         LET other == processState.rawBeacons[j]
                         IN ~AllMissing(other)
                              => /\ PairAt(tex, j - 1, -1)
                                      = PairAt(alone.texture, j - 1, -1)
                                 /\ \A i \in 0..(Len(other.lon) - 1) :
                                      LET t == other.start + SECONDS_PER_DAY * i
                                      IN PairAt(tex, j - 1, getTimeIndex(tex, t))
                                           = PairAt(alone.texture, j - 1,
                                               getTimeIndex(alone.texture, t))

\* 'ready' has been announced for a data file of a station whose samples are
\* all missing and a station with valid samples, after processData was
\* suspended and resumed.
C28_Witness ==
  /\ readyCount = 1
  /\ processDataCallback \in yields
  /\ \E k, j \in 1..Len(processState.rawBeacons) :
       /\ AllMissing(processState.rawBeacons[k])
       /\ k < j
       /\ ~Missing(processState.rawBeacons[j], 0)

\* C29: a 'data-ready' event whose detail holds a station without an index
\* at which lat and lon are both non-zero ends in an exception and leaves
\* the overlay as it was: processState, the pending callbacks, the position
\* of the pipeline and the count of setData calls; the markers stay too.
C29_NoMarkerNoSetData ==
  [][(/\ dataReady'.count = dataReady.count + 1
      /\ \E k \in 1..Len(dataReady'.detail) :
           \A i \in 1..Len(dataReady'.detail[k].lat) :
             dataReady'.detail[k].lat[i] = 0 \/ dataReady'.detail[k].lon[i] = 0)
       => /\ threw'
          /\ UNCHANGED <<processState, timers, pc, calls, run, scene,
                         readyCount, setupCount, lastEvent, markers>>]_vars

\* Such an event has been dispatched while a callback of the pipeline of an
\* earlier data file was pending, a station with a valid sample ahead of the
\* one without.
C29_Witness ==
  /\ dataReady.count = 2
  /\ threw
  /\ timers # <<>>
  /\ calls = 1
  /\ Len(dataReady.detail) = 2
  /\ ~AllMissing(dataReady.detail[1])
  /\ AllMissing(dataReady.detail[2])

\* C30: a setter call that does not throw stores its pair in the two
\* elements of the slot of its row and day (the base: day -1; the medians:
\* row -1), sets needsUpdate, and leaves every other element, the
\* dimensions and the timestamp bounds as they were.
C30_SetterWritesItsSlotOnly ==
  [][LET tex == beaconVertexTexture
         offset == computeOffset(tex, call'.beaconIndex,
                                 getTimeIndex(tex, call'.timestamp))
     IN (/\ call'.op \in {"setBeaconLonLat", "setMedianLonLat",
                          "setBaseLonLat"}
         /\ ~call'.threw)
          => /\ offset + 1 \in DOMAIN tex.data
             /\ offset + 2 \in DOMAIN tex.data
             /\ beaconVertexTexture' =
                  [tex EXCEPT !.data = [@ EXCEPT ![offset + 1] = call'.lon,
                                                 ![offset + 2] = call'.lat],
                              !.needsUpdate = TRUE]]_vars

C32_BaseOnceAndCursorCleared ==
  [][LET state == processState
         tex == processState.texture
         firstVisit == pc = "processData" /\ state.beaconState = <<>>
     IN /\ (tex.alloc /\ processState'.texture.alloc)
             => \A k \in 0..(tex.beaconCount - 1) :
                  PairAt(processState'.texture, k, -1) # PairAt(tex, k, -1)
                    => firstVisit /\ state.beaconIndex = k
        /\ (firstVisit /\ processState' # state /\ ~threw'
              /\ Lt(state.beaconIndex, Len(state.rawBeacons)))
             => PairAt(processState'.texture, state.beaconIndex, -1)
                  = <<GetX(Elem(state.rawBeacons[state.beaconIndex + 1].lon, 0)),
                      GetY(Elem(state.rawBeacons[state.beaconIndex + 1].lat, 0))>>
        /\ (pc = "processData" /\ state.beaconState # <<>>
              /\ processState'.beaconState = <<>>)
             => /\ state.beaconState[1].lonLatIndex
                     = Len(state.rawBeacons[state.beaconIndex + 1].lon)
                /\ processState'.beaconIndex = state.beaconIndex + 1
        /\ (pc = "processData"
              /\ processState'.beaconIndex # state.beaconIndex)
             => processState'.beaconState = <<>>]_vars

\* processData has been suspended and resumed between two samples of a
\* station, whose base slot holds what the first visit wrote.
C32_Witness ==
  /\ pc = "processData"
  /\ processDataCallback \in yields
  /\ processState.beaconState # <<>>
  /\ processState.beaconState[1].lonLatIndex = 1
  /\ Len(processState.rawBeacons[processState.beaconIndex + 1].lon) = 2
  /\ processState.beaconIndex >= 1
  /\ PairAt(processState.texture, processState.beaconIndex, -1)
       = <<processState.beaconState[1].baseX, processState.beaconState[1].baseY>>
  /\ elapsed = 0


\* C33: whenever processData of a single run is suspended, it is suspended
\* inside a station, with the station's cursor past at least one sample; every
\* sample of that station below the cursor that is not missing has its cell
\* of the texture and its record written, no sample at or above the cursor
\* has either, the interior records written are those of all the earlier
\* stations followed by those of the current station below the cursor, and
\* positionIndex is the number of records of the position array that have
\* been written, all of them at its front.
C33_SuspendedAtUnitBoundary ==
  (pc = "idle" /\ timers # <<>> /\ timers[1].callback = processDataCallback)
    => /\ processState.beaconState # <<>>
       /\ LET state == processState
              tex == state.texture
              k == state.beaconIndex + 1
              beacon == state.rawBeacons[k]
              beaconState == state.beaconState[1]
              cursor == beaconState.lonLatIndex
              timestamp(i) == beacon.start + SECONDS_PER_DAY * i
              cell(i) == PairAt(tex, k - 1, getTimeIndex(tex, timestamp(i)))
              record(i) == Vertex(k - 1, beacon.start, timestamp(i))
              earlier == InteriorOf(SubSeq(state.rawBeacons, 1, k - 1), 1)
              current == SelectSeq(InteriorOfStation(beacon, k - 1, 0),
                                   LAMBDA v : v[3] < timestamp(cursor))
          IN /\ cursor \in 1..Len(beacon.lon)
             /\ \A i \in 0..(Len(beacon.lon) - 1) :
                  IF i < cursor /\ ~Missing(beacon, i)
                  THEN /\ cell(i) = <<Sub(GetX(beacon.lon[i + 1]), beaconState.baseX),
                                      Sub(GetY(beacon.lat[i + 1]), beaconState.baseY)>>
                       /\ \E n \in 1..state.positionIndex :
                            state.positions[n] = record(i)
                  ELSE /\ cell(i) = <<0, 0>>
                       /\ \A n \in DOMAIN state.positions :
                            state.positions[n] # record(i)
             /\ SelectSeq(Written(state), IsInterior) = earlier \o current
             /\ state.positionIndex
                  = Cardinality({n \in DOMAIN state.positions :
                                   state.positions[n] # Vertex(0, 0, 0)})
             /\ \A n \in DOMAIN state.positions :
                  state.positions[n] # Vertex(0, 0, 0) => n <= state.positionIndex

\* C33 witness: processData is suspended between the two samples of the
\* second of two fully sampled stations: four records have been written.
C33_Witness ==
  /\ pc = "idle"
  /\ timers # <<>>
  /\ timers[1].callback = processDataCallback
  /\ processState.beaconIndex = 1
  /\ processState.beaconState # <<>>
  /\ processState.beaconState[1].lonLatIndex = 1
  /\ ~Missing(processState.rawBeacons[2], 0)
  /\ Len(processState.rawBeacons[1].lon) = 2
  /\ processState.positionIndex = 6


\* C34: in a single run (every station start is a whole number of days) no
\* pass of processData and no pass of computeMedians ends with an exception;
\* the station index processData hands to setBaseLonLat and setBeaconLonLat
\* is in 0..beaconCount-1, the timestamp it hands to setBeaconLonLat for a
\* sample that is not missing is in [startTimestamp, endTimestamp] of the
\* texture, and so is the timestamp computeMedians hands to setMedianLonLat.
C34_NoBoundsError ==
  [][LET state == processState
         tex == state.texture
     IN /\ (pc = "processData"
              /\ Lt(state.beaconIndex, Len(state.rawBeacons)))
             => LET beacon == state.rawBeacons[state.beaconIndex + 1]
                    index == IF state.beaconState = <<>> THEN 0
                             ELSE state.beaconState[1].lonLatIndex
                IN /\ ~threw'
                   /\ tex.alloc
                   /\ ~IndexOutOfRange(tex, state.beaconIndex)
                   /\ (index < Len(beacon.lon) /\ ~Missing(beacon, index))
                        => ~TimestampOutOfRange(tex,
                              beacon.start + SECONDS_PER_DAY * index)
        /\ (pc = "computeMedians"
              /\ Leq(state.currentTimestamp, state.endTimestamp))
             => /\ ~threw'
                /\ tex.alloc
                /\ ~TimestampOutOfRange(tex, state.currentTimestamp)]_vars

\* C34 witness: a run over stations that start on different days has reached
\* 'ready' after processData and computeMedians were both suspended, with a
\* sample written for the last day a station has one.
C34_Witness ==
  /\ readyCount = 1
  /\ ~threw
  /\ {processDataCallback, computeMediansCallback} \subseteq yields
  /\ Len(processState.rawBeacons) >= 2
  /\ processState.rawBeacons[1].start > processState.rawBeacons[2].start
  /\ Len(processState.rawBeacons[1].lon) = 2
  /\ ~Missing(processState.rawBeacons[1], 1)
  /\ Len(processState.medianLons) = processState.texture.timestampCount


\* C35: in a single run, from the allocation of the buffers on,
\* positionIndex is at most totalVertexCount, which is the number of records
\* of the position array, and every record that has been written lies below
\* positionIndex; when processData has finished every station, positionIndex
\* is the number of samples that are not missing plus the number of
\* separator records in the array.
C35_PositionIndexWithinArray ==
  setupCount = 1
    => LET state == processState
           separators == {n \in DOMAIN state.positions :
                            state.positions[n][3] \in {Infinity, NegInfinity}}
       IN /\ state.positionIndex <= state.totalVertexCount
          /\ Len(state.positions) = state.totalVertexCount
          /\ \A n \in DOMAIN state.positions :
               state.positions[n] # Vertex(0, 0, 0) => n <= state.positionIndex
          /\ FillComplete
               => state.positionIndex
                    = Len(InteriorOf(state.rawBeacons, 1)) + Cardinality(separators)

\* C35 witness: processData has finished two stations after a suspension,
\* the first fully sampled and the second not, so that fewer records were
\* written than were allocated.
C35_Witness ==
  /\ FillComplete
  /\ pc = "computeMedians"
  /\ processDataCallback \in yields
  /\ Len(processState.rawBeacons) = 2
  /\ Len(processState.rawBeacons[1].lon) = 2
  /\ ~Missing(processState.rawBeacons[1], 0)
  /\ ~Missing(processState.rawBeacons[1], 1)
  /\ processState.positionIndex >= 5
  /\ processState.positionIndex < processState.totalVertexCount


\* C36: on every day computeMedians visits, for every station that passes
\* the coverage test of lines 564-570, the sample index computed at line 573
\* is one of 0..len-1, and so is every index the backward scan of lines
\* 587-592 reads when the sample is not missing.
C36_MediansIndexInsideArrays ==
  (pc = "computeMedians"
     /\ Leq(processState.currentTimestamp, processState.endTimestamp))
    => \A j \in 0..(Len(processState.rawBeacons) - 1) :
         LET state == processState
             beacon == state.rawBeacons[j + 1]
             len == Len(beacon.lon)
             endTimestamp == beacon.start + SECONDS_PER_DAY * len
             index == Round(state.currentTimestamp - beacon.start,
                            SECONDS_PER_DAY)
             scanned == {p \in 0..(index - 1) :
                           \A q \in (p + 1)..(index - 1) :
                             ~(Truthy(Elem(beacon.lon, q))
                                 /\ Truthy(Elem(beacon.lat, q)))}
         IN (state.currentTimestamp >= beacon.start
               /\ state.currentTimestamp <= endTimestamp)
              => /\ index \in 0..(len - 1)
                 /\ (Truthy(Elem(beacon.lon, index))
                       /\ Truthy(Elem(beacon.lat, index)))
                      => scanned \subseteq 0..(len - 1)


\* C37: in a single run, every pass of computeMedians writes the slot of the
\* median row of the day whose index is the number of days written before
\* it, appends one entry to each cumulative median array, moves on by one
\* day and changes no other slot of the median row; a computeMedians that is
\* resumed finds the state as the suspended one left it; and when 'ready'
\* has been emitted both arrays have timestampCount entries, the entry of
\* each day being what its slot of the median row holds.
C37_MedianRowOncePerDayInOrder ==
  [][LET state == processState
         tex == state.texture
         d == Len(state.medianLons)
     IN /\ (pc = "computeMedians"
              /\ Leq(state.currentTimestamp, state.endTimestamp)
              /\ processState' # state)
             => /\ getTimeIndex(tex, state.currentTimestamp) = d
                /\ WholeDay(tex, state.currentTimestamp)
                /\ d < tex.timestampCount
                /\ Len(processState'.medianLons) = d + 1
                /\ Len(processState'.medianLats) = d + 1
                /\ SubSeq(processState'.medianLons, 1, d) = state.medianLons
                /\ SubSeq(processState'.medianLats, 1, d) = state.medianLats
                /\ processState'.currentTimestamp
                     = state.currentTimestamp + SECONDS_PER_DAY
                /\ PairAt(processState'.texture, -1, d)
                     = <<processState'.medianLons[d + 1],
                         processState'.medianLats[d + 1]>>
                /\ \A t \in 0..(tex.timestampCount - 1) :
                     t # d => PairAt(processState'.texture, -1, t)
                                = PairAt(tex, -1, t)
        /\ (pc = "idle" /\ pc' = "computeMedians")
             => processState' = state
        /\ (readyCount' = 1)
             => /\ Len(processState'.medianLons) = tex.timestampCount
                /\ Len(processState'.medianLats) = tex.timestampCount
                /\ \A t \in 0..(tex.timestampCount - 1) :
                     PairAt(processState'.texture, -1, t)
                       = <<processState'.medianLons[t + 1],
                           processState'.medianLats[t + 1]>>]_vars

\* C37 witness: 'ready' has been emitted after computeMedians was suspended
\* and resumed, for a run of at least three days.
C37_Witness ==
  /\ readyCount = 1
  /\ computeMediansCallback \in yields
  /\ processState.texture.timestampCount >= 3
  /\ Len(processState.medianLons) = processState.texture.timestampCount
  /\ processState.medianLons[Len(processState.medianLons)] # 0


\* C38: after any sequence of setData calls the scene holds at most one
\* line, and exactly one, that of the latest dataset, once the buffers of
\* the latest dataset have been allocated.
C38_SceneHoldsLatestLineOnly ==
  /\ scene <= 1
  /\ setupCount >= 1 => scene = 1


\* C39: after every setExtent, setRange, nub drag and click, once the extent
\* is set, extentStart <= rangeStart < rangeEnd <= extentEnd, and after a
\* drag rangeEnd - rangeStart is at least one day; a setRange whose
\* rangeStart is not before its rangeEnd, or whose range is not within the
\* extent already set, throws and leaves extent and range as they were.
C39_RangeWithinExtent ==
  [][LET t == timeRange
         u == timeRange'
         kept == /\ u.extentStart = t.extentStart
                 /\ u.extentEnd = t.extentEnd
                 /\ u.rangeStart = t.rangeStart
                 /\ u.rangeEnd = t.rangeEnd
     IN /\ u.extentStart # NaN
             => /\ u.extentStart <= u.rangeStart
                /\ u.rangeStart < u.rangeEnd
                /\ u.rangeEnd <= u.extentEnd
        /\ u.op = "drag" => u.rangeEnd - u.rangeStart >= MS_PER_DAY
        /\ (u.op = "setRange"
              /\ \/ u.args[1] >= u.args[2]
                 \/ /\ t.extentStart # NaN
                    /\ (u.args[1] < t.extentStart \/ u.args[2] > t.extentEnd))
             => u.threw /\ kept]_vars

====
